---- MODULE Spec2Model ----
(***************************************************************************)
(* A model of pollywog's calculation-set data model (pollywog/core.py,     *)
(* pollywog/utils.py), its .lfcalc container codec and the decompiler's    *)
(* intermediate representation (pollywog/conversion/decomp.py).            *)
(*                                                                         *)
(* Python values are tagged records: the tag t is the Python type, and     *)
(* every type keeps its payload under field names of its own, so that two  *)
(* values of different types are unequal records.  A call returns a result *)
(* record: err = "ok" with the returned value, or the name of the          *)
(* exception it raised.                                                    *)
(***************************************************************************)
EXTENDS Integers, Sequences, FiniteSets, TLC

VARIABLES
    items,   \* CalcSet.items of the calculation set cs the session works on
    op,      \* the operation that ran last
    arg,     \* the argument of that operation
    res,     \* what it returned or raised
    file     \* the bytes of the buffer last written by to_lfcalc

vars == <<items, op, arg, res, file>>

(***************************************************************************)
(* Bounds of the model.                                                    *)
(***************************************************************************)
MaxItems == 3

(***************************************************************************)
(* Python values.                                                          *)
(***************************************************************************)
NoneVal == [t |-> "None"]
Str(s) == [t |-> "str", s |-> s]
Bool(b) == [t |-> "bool", b |-> b]
List(l) == [t |-> "list", l |-> l]
Tuple(l) == [t |-> "tuple", tl |-> l]
Dict(d) == [t |-> "dict", d |-> d]
IfRowObj(condition, value) ==
    [t |-> "IfRow", condition |-> condition, value |-> value]
IfObj(rows, otherwise) == [t |-> "If", rows |-> rows, otherwise |-> otherwise]
ItemObj(cls, name, children, comment_item, comment_equation) ==
    [t |-> "Item", cls |-> cls, name |-> name, children |-> children,
     comment_item |-> comment_item, comment_equation |-> comment_equation]
CalcSetObj(its) == [t |-> "CalcSet", items |-> its]

Ok(v) == [err |-> "ok", val |-> v]
Raise(e) == [err |-> e, val |-> NoneVal]
IsOk(r) == r.err = "ok"

\* r evaluated once; f applied to what it returned, unless it raised
Bind(r, f(_)) == CHOOSE y \in { IF IsOk(x) THEN f(x.val) ELSE x : x \in {r} } : TRUE

isinstance_str(x) == x.t = "str"
isinstance_list(x) == x.t = "list"
isinstance_dict(x) == x.t = "dict"

\* d[k] of a dict: KeyError when the key is missing
dict_item(d, k) == IF k \in DOMAIN d.d THEN Ok(d.d[k]) ELSE Raise("KeyError")
\* d.get(k, default)
dict_get(d, k, default) == IF k \in DOMAIN d.d THEN d.d[k] ELSE default

(***************************************************************************)
(* The Item classes and their class attributes.                            *)
(***************************************************************************)
item_type(cls) ==
    CASE cls \in {"Number", "Category"} -> Str("calculation")
      [] cls = "Variable" -> Str("variable")
      [] cls = "Filter" -> Str("filter")
      [] OTHER -> NoneVal

calculation_type_of_a_number(cls) ==
    CASE cls \in {"Number", "Category"} -> Str("number")
      [] OTHER -> NoneVal

calculation_type(cls) ==
    CASE cls = "Number" -> Str("number")
      [] cls = "Category" -> Str("string")
      [] OTHER -> NoneVal

ITEM_ORDER == [variable |-> 0, calculation |-> 1, filter |-> 2]

(***************************************************************************)
(* pollywog/utils.py                                                       *)
(***************************************************************************)
ensure_list(x) == IF ~isinstance_list(x) THEN List(<<x>>) ELSE x

\* the two guards of to_dict(..., guard_strings=True) and of ensure_str_list,
\* on a non-empty Python list given as a sequence
guard_first(out) == IF ~isinstance_str(out[1]) THEN <<Str("")>> \o out ELSE out
\* a guard that leaves the tail of the list alone
guard_last_skipped(out) == out
guard_last(out) ==
    IF ~isinstance_str(out[Len(out)]) THEN Append(out, Str("")) ELSE out

\* a decoder that pads whether or not the ends are text
ensure_str_list_always_pads(x) ==
    LET xl == IF ~isinstance_list(x) THEN <<x>> ELSE x.l
    IN  IF xl = <<>> THEN Raise("IndexError")
        ELSE Ok(List(<<Str("")>> \o xl \o <<Str("")>>))

ensure_str_list(x) ==
    LET xl == IF ~isinstance_list(x) THEN <<x>> ELSE x.l
    IN  IF xl = <<>> THEN Raise("IndexError")
        ELSE Ok(List(guard_last(guard_first(xl))))

hasattr_to_dict(x) == x.t \in {"Item", "If", "IfRow", "CalcSet"}

RECURSIVE to_dict_each(_)
RECURSIVE Item_to_dict(_)
RECURSIVE IfRow_to_dict(_)
RECURSIVE If_to_dict(_)
RECURSIVE If_rows_to_dict(_)
RECURSIVE CalcSet_to_dict(_, _)

\* item.to_dict(), dispatched on the object's class
method_to_dict(x) ==
    CASE x.t = "Item" -> Item_to_dict(x)
      [] x.t = "IfRow" -> IfRow_to_dict(x)
      [] x.t = "If" -> If_to_dict(x)
      [] x.t = "CalcSet" -> CalcSet_to_dict(x, TRUE)

\* the list comprehension of utils.to_dict, left to right
to_dict_each(xs) ==
    IF xs = <<>> THEN Ok(<<>>)
    ELSE Bind(IF hasattr_to_dict(Head(xs)) THEN method_to_dict(Head(xs))
              ELSE Ok(Head(xs)),
              LAMBDA h : Bind(to_dict_each(Tail(xs)),
                              LAMBDA r : Ok(<<h>> \o r)))

to_dict_tolerating_empty_lists(its, guard_strings) ==
    Bind(to_dict_each(ensure_list(its).l),
         LAMBDA out :
             IF ~guard_strings \/ out = <<>> THEN Ok(List(out))
             ELSE Ok(List(guard_last(guard_first(out)))))

to_dict(its, guard_strings) ==
    Bind(to_dict_each(ensure_list(its).l),
         LAMBDA out :
             IF ~guard_strings THEN Ok(List(out))
             ELSE IF out = <<>> THEN Raise("IndexError")
             ELSE Ok(List(guard_last(guard_first(out)))))

(***************************************************************************)
(* What the encoding leaves behind in the objects it has read.  A Python   *)
(* list is changed by the calls made on it (sort, append, insert), never   *)
(* by binding a name to a new list.                                        *)
(***************************************************************************)
RECURSIVE to_dict_argument_after(_, _)
RECURSIVE object_after_to_dict(_)

to_dict_argument_after_guarding_in_place(its, guard_strings) ==
    IF ~isinstance_list(its) THEN object_after_to_dict(its)
    ELSE LET after == [i \in DOMAIN its.l |-> object_after_to_dict(its.l[i])]
         IN  IF guard_strings /\ after /= <<>> THEN List(guard_last(guard_first(after)))
             ELSE List(after)

\* the argument of utils.to_dict once it has returned: out is a new list
\* built by the comprehension, and a guard binds out to a new list
\* ([""] + out, out + [""]); the elements have had their to_dict called
to_dict_argument_after(its, guard_strings) ==
    IF ~isinstance_list(its) THEN object_after_to_dict(its)
    ELSE List([i \in DOMAIN its.l |-> object_after_to_dict(its.l[i])])

\* an object once its to_dict has returned or raised: Item.to_dict,
\* IfRow.to_dict and If.to_dict hand their attributes to utils.to_dict and
\* assign to none of them; a row given as a pair is unpacked into a new IfRow
object_after_to_dict(x) ==
    CASE x.t = "Item" -> [x EXCEPT !.children = to_dict_argument_after(x.children, TRUE)]
      [] x.t = "IfRow" ->
             [x EXCEPT !.condition = to_dict_argument_after(x.condition, FALSE),
                       !.value = to_dict_argument_after(x.value, TRUE)]
      [] x.t = "If" ->
             [x EXCEPT !.rows =
                  IF isinstance_list(x.rows)
                  THEN List([i \in DOMAIN x.rows.l |->
                           IF x.rows.l[i].t = "IfRow" THEN object_after_to_dict(x.rows.l[i])
                           ELSE x.rows.l[i]])
                  ELSE IF x.rows.t = "IfRow" THEN object_after_to_dict(x.rows) ELSE x.rows,
                       !.otherwise = to_dict_argument_after(x.otherwise, TRUE)]
      [] OTHER -> x

\* a calculation set once its to_dict has returned or raised: items.sort
\* sorts the list utils.to_dict returned, which is not self.items
CalcSet_after_to_dict(self, sort_items) ==
    CalcSetObj(to_dict_argument_after(List(self.items), FALSE).l)

\* the dictionary handed to from_dict once from_dict has returned or
\* raised: the decoders subscript it, and ensure_list and ensure_str_list
\* bind their parameter to a new list where they wrap or pad
RECURSIVE from_dict_argument_after(_)
from_dict_argument_after(data) ==
    CASE isinstance_dict(data) ->
             Dict([k \in DOMAIN data.d |-> from_dict_argument_after(data.d[k])])
      [] isinstance_list(data) ->
             List([i \in DOMAIN data.l |-> from_dict_argument_after(data.l[i])])
      [] OTHER -> data

(***************************************************************************)
(* pollywog/core.py: encoding                                              *)
(***************************************************************************)
ListNode(children) == Dict([type |-> Str("list"), children |-> children])

Item_to_dict(self) ==
    IF item_type(self.cls) = NoneVal THEN Raise("NotImplementedError")
    ELSE Bind(to_dict(self.children, TRUE),
              LAMBDA children :
                  LET item ==
                          [type |-> item_type(self.cls),
                           name |-> self.name,
                           equation |->
                               Dict([type |-> Str("equation"),
                                     comment |-> self.comment_equation,
                                     statement |-> ListNode(children)]),
                           comment |-> self.comment_item]
                  IN  IF calculation_type(self.cls) /= NoneVal
                      THEN Ok(Dict(item @@ ("calculation_type" :>
                                            calculation_type(self.cls))))
                      ELSE Ok(Dict(item)))

IfRow_to_dict(self) ==
    Bind(to_dict(self.condition, FALSE),
         LAMBDA test :
             Bind(to_dict(self.value, TRUE),
                  LAMBDA result :
                      Ok(Dict([type |-> Str("if_row"),
                               test |-> ListNode(test),
                               result |-> ListNode(result)]))))

If_row_to_dict_passing_other_rows_through(row) ==
    CASE row.t = "IfRow" -> IfRow_to_dict(row)
      [] row.t = "tuple" /\ Len(row.tl) = 2 ->
             IfRow_to_dict(IfRowObj(row.tl[1], row.tl[2]))
      [] row.t = "list" /\ Len(row.l) = 2 ->
             IfRow_to_dict(IfRowObj(row.l[1], row.l[2]))
      [] OTHER -> Ok(row)

\* one turn of the loop of If.to_dict
If_row_to_dict(row) ==
    CASE row.t = "IfRow" -> IfRow_to_dict(row)
      [] isinstance_dict(row) /\ dict_get(row, "type", NoneVal) = Str("if_row") ->
             Ok(row)
      [] row.t = "tuple" /\ Len(row.tl) = 2 ->
             IfRow_to_dict(IfRowObj(row.tl[1], row.tl[2]))
      [] row.t = "list" /\ Len(row.l) = 2 ->
             IfRow_to_dict(IfRowObj(row.l[1], row.l[2]))
      [] OTHER -> Raise("ValueError")

\* the loop over ensure_list(self.rows) of If.to_dict
If_rows_to_dict(rows) ==
    IF rows = <<>> THEN Ok(<<>>)
    ELSE Bind(If_row_to_dict(Head(rows)),
              LAMBDA h : Bind(If_rows_to_dict(Tail(rows)),
                              LAMBDA r : Ok(<<h>> \o r)))

If_to_dict(self) ==
    Bind(If_rows_to_dict(ensure_list(self.rows).l),
         LAMBDA rows :
             Bind(to_dict(self.otherwise, TRUE),
                  LAMBDA otherwise :
                      Ok(Dict([type |-> Str("if"),
                               rows |-> List(rows),
                               otherwise |-> ListNode(otherwise)]))))

\* the key of items.sort in CalcSet.to_dict: ITEM_ORDER.get(x.get("type"), 99)
sort_key(x) ==
    LET ty == dict_get(x, "type", NoneVal)
    IN  IF isinstance_str(ty) /\ ty.s \in DOMAIN ITEM_ORDER
        THEN ITEM_ORDER[ty.s] ELSE 99

\* an unstable insertion: x goes ahead of the elements with its own key
RECURSIVE sort_insert_unstable(_, _)
sort_insert_unstable(sorted, x) ==
    IF sorted = <<>> THEN <<x>>
    ELSE IF sort_key(Head(sorted)) < sort_key(x)
         THEN <<Head(sorted)>> \o sort_insert_unstable(Tail(sorted), x)
         ELSE <<x>> \o sorted

\* list.sort is stable: x goes behind every element whose key is not larger
RECURSIVE sort_insert(_, _)
sort_insert(sorted, x) ==
    IF sorted = <<>> THEN <<x>>
    ELSE IF sort_key(Head(sorted)) <= sort_key(x)
         THEN <<Head(sorted)>> \o sort_insert(Tail(sorted), x)
         ELSE <<x>> \o sorted

RECURSIVE list_sort(_)
list_sort(xs) ==
    IF xs = <<>> THEN <<>>
    ELSE sort_insert(list_sort(SubSeq(xs, 1, Len(xs) - 1)), xs[Len(xs)])

\* an encoder that sorts whatever sort_items says
CalcSet_to_dict_always_sorted(self, sort_items) ==
    Bind(to_dict(List(self.items), FALSE),
         LAMBDA its :
             Ok(Dict([type |-> Str("calculation-set"),
                      items |-> List(list_sort(its.l))])))

CalcSet_to_dict(self, sort_items) ==
    Bind(to_dict(List(self.items), FALSE),
         LAMBDA its :
             Ok(Dict([type |-> Str("calculation-set"),
                      items |-> List(IF sort_items THEN list_sort(its.l)
                                     ELSE its.l)])))

(***************************************************************************)
(* pollywog/core.py: decoding                                              *)
(***************************************************************************)
\* x[k] for a string key k: only a dict can be subscripted by one
subscript(x, k) == IF isinstance_dict(x) THEN dict_item(x, k) ELSE Raise("TypeError")

\* x[k1][k2]..., left to right
RECURSIVE subscript_path(_, _)
subscript_path(x, keys) ==
    IF keys = <<>> THEN Ok(x)
    ELSE Bind(subscript(x, Head(keys)), LAMBDA v : subscript_path(v, Tail(keys)))

\* the registry `expressions`: the wire tags that dispatch_expression accepts
expressions == {"if"}
\* the registry `classes`: the wire tags CalcSet.from_dict hands to a class
classes == {"variable", "filter", "if", "if_row"}

RECURSIVE dispatch_expression(_)
RECURSIVE dispatch_each(_)
RECURSIVE IfRow_from_dict(_)
RECURSIVE If_from_dict(_)
RECURSIVE If_rows_from_dict(_)

\* `for x in xs: out.append(dispatch_expression(x))`
dispatch_each(xs) ==
    IF xs = <<>> THEN Ok(<<>>)
    ELSE Bind(dispatch_expression(Head(xs)),
              LAMBDA h : Bind(dispatch_each(Tail(xs)),
                              LAMBDA r : Ok(<<h>> \o r)))

dispatch_expression(data) ==
    IF isinstance_dict(data) /\ "type" \in DOMAIN data.d
    THEN LET expr_type == data.d["type"]
         IN  IF isinstance_str(expr_type) /\ expr_type.s \in expressions
             THEN If_from_dict(data)
             ELSE Raise("ValueError")
    ELSE Ok(data)

Item_from_dict_keeping_dictionaries(cls, data) ==
    IF item_type(cls) = NoneVal THEN Raise("NotImplementedError")
    ELSE Bind(subscript(data, "type"),
      LAMBDA ty :
        IF ty /= item_type(cls) THEN Raise("ValueError")
        ELSE Bind(subscript_path(data, <<"equation", "statement", "children">>),
          LAMBDA ch :
            Bind(subscript(data, "name"),
              LAMBDA name :
                Ok(ItemObj(cls, name, ensure_list(ch),
                           dict_get(data, "comment", Str("")),
                           dict_get(data.d["equation"], "comment", Str("")))))))

Item_from_dict(cls, data) ==
    IF item_type(cls) = NoneVal THEN Raise("NotImplementedError")
    ELSE Bind(subscript(data, "type"),
      LAMBDA ty :
        IF ty /= item_type(cls) THEN Raise("ValueError")
        ELSE Bind(subscript_path(data, <<"equation", "statement", "children">>),
          LAMBDA ch :
            Bind(dispatch_each(ensure_list(ch).l),
              LAMBDA children :
                Bind(subscript(data, "name"),
                  LAMBDA name :
                    Ok(ItemObj(cls, name, List(children),
                               dict_get(data, "comment", Str("")),
                               dict_get(data.d["equation"], "comment", Str(""))))))))

IfRow_from_dict(data) ==
    Bind(subscript(data, "type"),
      LAMBDA ty :
        IF ty /= Str("if_row") THEN Raise("ValueError")
        ELSE Bind(subscript_path(data, <<"test", "children">>),
          LAMBDA tc :
            Bind(dispatch_each(ensure_list(tc).l),
              LAMBDA condition :
                Bind(subscript_path(data, <<"result", "children">>),
                  LAMBDA rc :
                    Bind(ensure_str_list(rc),
                      LAMBDA padded :
                        Bind(dispatch_each(padded.l),
                          LAMBDA value :
                            Ok(IfRowObj(List(condition), List(value)))))))))

\* `[IfRow.from_dict(row) if isinstance(row, dict) else row for row in ...]`
If_rows_from_dict(rows) ==
    IF rows = <<>> THEN Ok(<<>>)
    ELSE Bind(IF isinstance_dict(Head(rows)) THEN IfRow_from_dict(Head(rows))
              ELSE Ok(Head(rows)),
              LAMBDA h : Bind(If_rows_from_dict(Tail(rows)),
                              LAMBDA r : Ok(<<h>> \o r)))

If_from_dict(data) ==
    Bind(subscript(data, "type"),
      LAMBDA ty :
        IF ty /= Str("if") THEN Raise("ValueError")
        ELSE Bind(subscript(data, "rows"),
          LAMBDA rs :
            Bind(If_rows_from_dict(ensure_list(rs).l),
              LAMBDA rows :
                Bind(subscript_path(data, <<"otherwise", "children">>),
                  LAMBDA oc :
                    Bind(ensure_str_list(oc),
                      LAMBDA padded :
                        Bind(dispatch_each(padded.l),
                          LAMBDA otherwise :
                            Ok(IfObj(List(rows), List(otherwise)))))))))

\* a loop body that takes a calculation of unknown calculation_type for a Number
CalcSet_item_from_dict_defaulting(item) ==
    Bind(subscript(item, "type"),
      LAMBDA ty :
        IF isinstance_str(ty) /\ ty.s \in classes
        THEN CASE ty.s = "variable" -> Item_from_dict("Variable", item)
               [] ty.s = "filter" -> Item_from_dict("Filter", item)
               [] ty.s = "if" -> If_from_dict(item)
               [] ty.s = "if_row" -> IfRow_from_dict(item)
        ELSE IF ty = Str("calculation")
        THEN LET ct == dict_get(item, "calculation_type", NoneVal)
             IN  IF ct = Str("string") THEN Item_from_dict("Category", item)
                 ELSE Item_from_dict("Number", item)
        ELSE Raise("ValueError"))

\* one turn of the loop of CalcSet.from_dict: the object built from one item dict
CalcSet_item_from_dict(item) ==
    Bind(subscript(item, "type"),
      LAMBDA ty :
        IF isinstance_str(ty) /\ ty.s \in classes
        THEN CASE ty.s = "variable" -> Item_from_dict("Variable", item)
               [] ty.s = "filter" -> Item_from_dict("Filter", item)
               [] ty.s = "if" -> If_from_dict(item)
               [] ty.s = "if_row" -> IfRow_from_dict(item)
        ELSE IF ty = Str("calculation")
        THEN LET ct == dict_get(item, "calculation_type", NoneVal)
             IN  IF ct = Str("number") THEN Item_from_dict("Number", item)
                 ELSE IF ct = Str("string") THEN Item_from_dict("Category", item)
                 ELSE Raise("ValueError")
        ELSE Raise("ValueError"))

RECURSIVE CalcSet_items_from_dict(_)
CalcSet_items_from_dict(ds) ==
    IF ds = <<>> THEN Ok(<<>>)
    ELSE Bind(CalcSet_item_from_dict(Head(ds)),
              LAMBDA h : Bind(CalcSet_items_from_dict(Tail(ds)),
                              LAMBDA r : Ok(<<h>> \o r)))

\* a decoder that sorts the item dictionaries before it builds the items
CalcSet_from_dict_resorting(data) ==
    Bind(subscript(data, "type"),
      LAMBDA ty :
        IF ty /= Str("calculation-set") THEN Raise("ValueError")
        ELSE Bind(subscript(data, "items"),
          LAMBDA its :
            IF ~isinstance_list(its) THEN Raise("TypeError")
            ELSE Bind(CalcSet_items_from_dict(list_sort(its.l)),
                      LAMBDA built : Ok(CalcSetObj(built)))))

\* a decoder that reads "items" before it looks at the type tag
CalcSet_from_dict_items_first(data) ==
    Bind(subscript(data, "items"),
      LAMBDA its :
        Bind(subscript(data, "type"),
          LAMBDA ty :
            IF ty /= Str("calculation-set") THEN Raise("ValueError")
            ELSE IF ~isinstance_list(its) THEN Raise("TypeError")
            ELSE Bind(CalcSet_items_from_dict(its.l),
                      LAMBDA built : Ok(CalcSetObj(built)))))

CalcSet_from_dict(data) ==
    Bind(subscript(data, "type"),
      LAMBDA ty :
        IF ty /= Str("calculation-set") THEN Raise("ValueError")
        ELSE Bind(subscript(data, "items"),
          LAMBDA its :
            IF ~isinstance_list(its) THEN Raise("TypeError")
            ELSE Bind(CalcSet_items_from_dict(its.l),
                      LAMBDA built : Ok(CalcSetObj(built)))))

(***************************************************************************)
(* The .lfcalc container: json.dumps, zlib, HEADER.  JSON text is held as  *)
(* the document it spells: strings, literals, arrays and objects whose     *)
(* members are an ordered list of key/value pairs.  A file is a sequence   *)
(* of bytes; a compressed stream is its header byte and one deflate block. *)
(***************************************************************************)
Byte(n) == [k |-> "byte", n |-> n]
Deflate(data) == [k |-> "deflate", data |-> data]

JString(s) == [j |-> "string", s |-> s]
JLiteral(w) == [j |-> "literal", w |-> w]
JArray(elems) == [j |-> "array", elems |-> elems]
JObject(members) == [j |-> "object", members |-> members]

\* a header with four zero bytes fewer
HEADER_of_28_bytes ==
    [i \in 1..28 |->
        Byte(IF i <= 12 THEN <<37, 108, 102, 99, 97, 108, 99, 45, 49, 46, 48, 10>>[i]
             ELSE 0)]

HEADER ==
    [i \in 1..32 |->
        Byte(IF i <= 12 THEN <<37, 108, 102, 99, 97, 108, 99, 45, 49, 46, 48, 10>>[i]
             ELSE 0)]

\* the order in which the encoders insert the keys of their dictionaries
KeyOrder ==
    <<"type", "name", "equation", "comment", "statement", "children",
      "calculation_type", "rows", "test", "result", "otherwise", "items">>
RECURSIVE SetToSeq(_)
SetToSeq(S) == IF S = {} THEN <<>> ELSE LET x == CHOOSE x \in S : TRUE
                                        IN  <<x>> \o SetToSeq(S \ {x})
dict_keys(d) ==
    SelectSeq(KeyOrder, LAMBDA k : k \in DOMAIN d.d)
    \o SetToSeq(DOMAIN d.d \ {KeyOrder[i] : i \in DOMAIN KeyOrder})

\* whether json.dumps has an encoding for x: the encoder knows dictionaries,
\* lists, tuples, strings and the literals, not the objects of the model
RECURSIVE serializable(_)
serializable(x) ==
    CASE x.t \in {"str", "None", "bool"} -> TRUE
      [] x.t = "list" -> \A i \in 1..Len(x.l) : serializable(x.l[i])
      [] x.t = "tuple" -> \A i \in 1..Len(x.tl) : serializable(x.tl[i])
      [] x.t = "dict" -> \A k \in DOMAIN x.d : serializable(x.d[k])
      [] OTHER -> FALSE

\* the text json.dumps writes for a serializable x: a tuple is written as an
\* array like a list, the members of an object in insertion order
RECURSIVE json_text(_)
json_text(x) ==
    CASE x.t = "str" -> JString(x.s)
      [] x.t = "None" -> JLiteral("null")
      [] x.t = "bool" -> JLiteral(IF x.b THEN "true" ELSE "false")
      [] x.t = "list" -> JArray([i \in 1..Len(x.l) |-> json_text(x.l[i])])
      [] x.t = "tuple" -> JArray([i \in 1..Len(x.tl) |-> json_text(x.tl[i])])
      [] x.t = "dict" ->
             JObject([i \in 1..Len(dict_keys(x)) |->
                         <<dict_keys(x)[i], json_text(x.d[dict_keys(x)[i]])>>])

\* json.dumps(x, indent=0)
json_dumps(x) == IF serializable(x) THEN Ok(json_text(x)) ELSE Raise("TypeError")

\* the value a JSON text denotes: every array comes back as a list, and a
\* repeated key of an object keeps its last value
RECURSIVE json_value(_)
json_value(text) ==
    CASE text.j = "string" -> Str(text.s)
      [] text.j = "literal" ->
             (CASE text.w = "null" -> NoneVal
                [] text.w = "true" -> Bool(TRUE)
                [] text.w = "false" -> Bool(FALSE))
      [] text.j = "array" -> List([i \in 1..Len(text.elems) |-> json_value(text.elems[i])])
      [] text.j = "object" ->
             LET ms == text.members
                 last(k) == CHOOSE i \in 1..Len(ms) :
                                /\ ms[i][1] = k
                                /\ \A n \in (i + 1)..Len(ms) : ms[n][1] /= k
             IN  Dict([k \in {ms[i][1] : i \in 1..Len(ms)} |-> json_value(ms[last(k)][2])])

\* json.loads(text)
json_loads(text) ==
    IF "j" \in DOMAIN text THEN Ok(json_value(text)) ELSE Raise("JSONDecodeError")

\* text.encode("utf-8") / bytes.decode("utf-8")
encode(text) == <<[k |-> "utf-8", text |-> text]>>
decode(data) ==
    IF Len(data) = 1 /\ data[1].k = "utf-8" THEN Ok(data[1].text)
    ELSE Raise("UnicodeDecodeError")

\* zlib.compress / zlib.decompress: a stream opens with its header byte
ZlibMagic == Byte(120)
zlib_compress(data) == <<ZlibMagic, Deflate(data)>>
zlib_decompress(data) ==
    IF Len(data) = 2 /\ data[1] = ZlibMagic /\ data[2].k = "deflate"
    THEN Ok(data[2].data)
    ELSE Raise("zlib.error")

CalcSet_to_json(self, sort_items) ==
    Bind(CalcSet_to_dict(self, sort_items), LAMBDA d : json_dumps(d))

\* a writer that leaves the header out
CalcSet_write_to_file_headerless(self, sort_items) ==
    Bind(CalcSet_to_json(self, sort_items),
         LAMBDA text : Ok(zlib_compress(encode(text))))

\* CalcSet._write_to_file: what the buffer holds afterwards
CalcSet_write_to_file(self, sort_items) ==
    Bind(CalcSet_to_json(self, sort_items),
         LAMBDA text : Ok(HEADER \o zlib_compress(encode(text))))

CalcSet_read_from_file_checking_the_header(f) ==
    IF Len(f) < Len(HEADER) \/ \E i \in 1..Len(HEADER) : f[i] /= HEADER[i] THEN Raise("ValueError")
    ELSE Bind(zlib_decompress(SubSeq(f, Len(HEADER) + 1, Len(f))),
           LAMBDA raw :
             Bind(decode(raw),
               LAMBDA json_data :
                 Bind(json_loads(json_data), LAMBDA data : CalcSet_from_dict(data))))

\* CalcSet._read_from_file: file.seek(len(HEADER)), file.read(), ...
CalcSet_read_from_file(f) ==
    Bind(zlib_decompress(SubSeq(f, Len(HEADER) + 1, Len(f))),
      LAMBDA raw :
        Bind(decode(raw),
          LAMBDA json_data :
            Bind(json_loads(json_data), LAMBDA data : CalcSet_from_dict(data))))

(***************************************************************************)
(* pollywog/conversion/decomp.py: the intermediate representation and the  *)
(* source text it emits.  Source text is kept structured: a line is a      *)
(* record, an emitted expression a tree whose leaves say whether the text  *)
(* went out bare or between double quotes.                                 *)
(***************************************************************************)
\* the characters of the text fragments the inputs use
Chars(s) ==
    CASE s = "" -> <<>>
      [] s = "x" -> <<"x">>
      [] s = "[x] > 0" -> <<"[", "x", "]", " ", ">", " ", "0">>
      [] s = "[a] + [b]" -> <<"[", "a", "]", " ", "+", " ", "[", "b", "]">>
      [] s = "[c] + [d]" -> <<"[", "c", "]", " ", "+", " ", "[", "d", "]">>
      [] s = "[Au] > 1" -> <<"[", "A", "u", "]", " ", ">", " ", "1">>
      [] s = "High" -> <<"H", "i", "g", "h">>
      [] s = "Low" -> <<"L", "o", "w">>
      [] s = "[x] <= 1" -> <<"[", "x", "]", " ", "<", "=", " ", "1">>
      [] s = "[y] <= 2" -> <<"[", "y", "]", " ", "<", "=", " ", "2">>
      [] s = "1.0" -> <<"1", ".", "0">>
      [] s = "2.0" -> <<"2", ".", "0">>
      [] s = "3.0" -> <<"3", ".", "0">>
      [] s = "[z] > 3" -> <<"[", "z", "]", " ", ">", " ", "3">>
      [] s = "'A'" -> <<"'", "A", "'">>
      [] s = "'B' + " -> <<"'", "B", "'", " ", "+", " ">>
      [] s = "'C'" -> <<"'", "C", "'">>
      [] s = "0" -> <<"0">>
      [] s = "[Au] * 2 + [Ag]" ->
             <<"[", "A", "u", "]", " ", "*", " ", "2", " ", "+", " ", "[", "A", "g", "]">>
      [] s = "[Au] * 2 + 3.5" ->
             <<"[", "A", "u", "]", " ", "*", " ", "2", " ", "+", " ", "3", ".", "5">>
      [] s = "\"High\"" -> <<"\"", "H", "i", "g", "h", "\"">>
      [] s = "y" -> <<"y">>
      [] s = "n" -> <<"n">>
      [] s = "m" -> <<"m">>
      [] s = "k" -> <<"k">>
      [] s = "bad" -> <<"b", "a", "d">>
      [] s = "dep" -> <<"d", "e", "p">>
      [] s = "[x] > 5" -> <<"[", "x", "]", " ", ">", " ", "5">>
      [] s = "[x] > 2" -> <<"[", "x", "]", " ", ">", " ", "2">>
      [] s = "1" -> <<"1">>
      [] s = "2" -> <<"2">>
      [] s = "3" -> <<"3">>
      [] s = "[x] / 0" -> <<"[", "x", "]", " ", "/", " ", "0">>
      [] s = "[x] + [y]" -> <<"[", "x", "]", " ", "+", " ", "[", "y", "]">>
      [] s = "[x] * [y]" -> <<"[", "x", "]", " ", "*", " ", "[", "y", "]">>
      [] s = "[bad] + 1" -> <<"[", "b", "a", "d", "]", " ", "+", " ", "1">>
      [] s = "[m] + 1" -> <<"[", "m", "]", " ", "+", " ", "1">>
      [] s = "[x] * 2" -> <<"[", "x", "]", " ", "*", " ", "2">>
      [] s = "[n] + [m]" -> <<"[", "n", "]", " ", "+", " ", "[", "m", "]">>
      [] s = "'F'" -> <<"'", "F", "'">>

IRExpression(children) == [t |-> "IRExpression", children |-> children]
IRIfRow(condition, result) == [t |-> "IRIfRow", condition |-> condition, result |-> result]
IRIf(rows, otherwise) == [t |-> "IRIf", rows |-> rows, otherwise |-> otherwise]
IRItem(name, expression, item) ==
    [t |-> "IRItem", name |-> name, expression |-> expression, item |-> item]

\* obj.attr: AttributeError when the object has no such attribute
getattr(obj, attr) ==
    IF attr \in DOMAIN obj \ {"t", "cls"} THEN Ok(obj[attr]) ELSE Raise("AttributeError")

\* `for x in v`: the elements of a list or tuple, the characters of a string
iterate(v) ==
    CASE v.t = "list" -> Ok(v.l)
      [] v.t = "tuple" -> Ok(v.tl)
      [] v.t = "str" -> Ok([i \in 1..Len(Chars(v.s)) |-> Str(Chars(v.s)[i])])
      [] OTHER -> Raise("TypeError")

\* bool(v) of a sequence-valued attribute
truthy(v) ==
    CASE v.t = "list" -> v.l /= <<>>
      [] v.t = "tuple" -> v.tl /= <<>>
      [] v.t = "str" -> v.s /= ""
      [] v.t = "None" -> FALSE
      [] OTHER -> TRUE

RECURSIVE IRExpression_from_expression(_)
RECURSIVE IRExpression_from_each(_)
RECURSIVE IRIf_from_if(_)
RECURSIVE IRIf_from_rows(_)

IRExpression_from_each(xs) ==
    IF xs = <<>> THEN Ok(<<>>)
    ELSE Bind(IF Head(xs).t = "If" THEN IRIf_from_if(Head(xs)) ELSE Ok(Head(xs)),
              LAMBDA h : Bind(IRExpression_from_each(Tail(xs)),
                              LAMBDA r : Ok(<<h>> \o r)))

IRExpression_from_expression(expression) ==
    Bind(iterate(expression),
         LAMBDA xs : Bind(IRExpression_from_each(xs),
                          LAMBDA ir_children : Ok(IRExpression(ir_children))))

\* the loop over if_obj.rows of IRIf.from_if
IRIf_from_rows(rows) ==
    IF rows = <<>> THEN Ok(<<>>)
    ELSE Bind(getattr(Head(rows), "condition"),
          LAMBDA condition :
            Bind(IRExpression_from_expression(condition),
              LAMBDA ir_condition :
                Bind(getattr(Head(rows), "value"),
                  LAMBDA value :
                    Bind(IRExpression_from_expression(value),
                      LAMBDA ir_result :
                        Bind(IRIf_from_rows(Tail(rows)),
                          LAMBDA r : Ok(<<IRIfRow(ir_condition, ir_result)>> \o r))))))

IRIf_from_if(if_obj) ==
    Bind(iterate(if_obj.rows),
      LAMBDA rows :
        Bind(IRIf_from_rows(rows),
          LAMBDA ir_rows :
            Bind(IF truthy(if_obj.otherwise)
                 THEN IRExpression_from_expression(if_obj.otherwise)
                 ELSE Ok(IRExpression(<<>>)),
              LAMBDA ir_otherwise : Ok(IRIf(ir_rows, ir_otherwise)))))

\* reads item.expression, an attribute that no Item of core.py has
IRItem_from_item(item) ==
    Bind(getattr(item, "expression"),
      LAMBDA expression :
        Bind(IRExpression_from_expression(expression),
          LAMBDA ir_expression :
            Bind(getattr(item, "name"),
              LAMBDA name : Ok(IRItem(name, ir_expression, item)))))

RECURSIVE IRCalcSet_from_items(_)
IRCalcSet_from_items(its) ==
    IF its = <<>> THEN Ok(<<>>)
    ELSE Bind(IRItem_from_item(Head(its)),
              LAMBDA h : Bind(IRCalcSet_from_items(Tail(its)),
                              LAMBDA r : Ok(<<h>> \o r)))

IRCalcSet_from_calcset(calcset) ==
    Bind(IRCalcSet_from_items(calcset.items),
         LAMBDA ir_items : Ok([t |-> "IRCalcSet", items |-> ir_items]))

(***************************************************************************)
(* The analyses of the IR work on the characters of a text fragment.  A    *)
(* string the program computes is kept as its characters.                  *)
(***************************************************************************)
Text(c) == [t |-> "str", chars |-> c]
str_chars(x) == IF "chars" \in DOMAIN x THEN x.chars ELSE Chars(x.s)
SetOf(e) == [t |-> "set", e |-> e]
Range(xs) == { xs[i] : i \in DOMAIN xs }

\* re.findall(r"\[([^\]]+)\]", c), scanning from position i: the leftmost
\* "[" that is followed by at least one character other than "]" and then
\* by a "]" matches up to the first such "]"; the scan goes on behind it
RECURSIVE findall_bracketed(_, _)
findall_bracketed(c, i) ==
    IF i > Len(c) THEN <<>>
    ELSE LET closing == { j \in (i + 2)..Len(c) : c[j] = "]" }
         IN  IF c[i] = "[" /\ i < Len(c) /\ c[i + 1] /= "]" /\ closing /= {}
             THEN LET j == CHOOSE j \in closing : \A k \in closing : j <= k
                  IN  <<SubSeq(c, i + 1, j - 1)>> \o findall_bracketed(c, j + 1)
             ELSE findall_bracketed(c, i + 1)

RECURSIVE IRExpression_get_dependencies(_)
RECURSIVE IRIf_get_dependencies(_)

IRExpression_get_dependencies(self) ==
    UNION { IF child.t = "IRIf" THEN IRIf_get_dependencies(child)
            ELSE IF isinstance_str(child)
                 THEN { Text(m) : m \in Range(findall_bracketed(str_chars(child), 1)) }
                 ELSE {} : child \in Range(self.children) }

IRIf_rows_get_dependencies_conditions_only(rows) ==
    UNION { IRExpression_get_dependencies(row.condition) : row \in Range(rows) }

\* the loop over self.rows: the condition and the result of every row
IRIf_rows_get_dependencies(rows) ==
    UNION { IRExpression_get_dependencies(row.condition)
            \cup IRExpression_get_dependencies(row.result) : row \in Range(rows) }

IRIf_get_dependencies(self) ==
    IRIf_rows_get_dependencies(self.rows) \cup IRExpression_get_dependencies(self.otherwise)

\* \d and \w of the regular expressions
Digits == {"0", "1", "2", "3", "4", "5", "6", "7", "8", "9"}
WordChars ==
    Digits \cup {"_"} \cup
    {"a", "b", "c", "d", "e", "f", "g", "h", "i", "j", "k", "l", "m",
     "n", "o", "p", "q", "r", "s", "t", "u", "v", "w", "x", "y", "z"} \cup
    {"A", "B", "C", "D", "E", "F", "G", "H", "I", "J", "K", "L", "M",
     "N", "O", "P", "Q", "R", "S", "T", "U", "V", "W", "X", "Y", "Z"}

\* re.findall(r'"(.*?)"|\'(.*?)\'', c), scanning from position i: a quote
\* matches up to the next quote of its kind on the same line; every match
\* is the pair of its two groups, the one that took no part being empty
RECURSIVE findall_quoted(_, _)
findall_quoted(c, i) ==
    IF i > Len(c) THEN <<>>
    ELSE LET closing == { j \in (i + 1)..Len(c) : c[j] = c[i] }
             j == CHOOSE j \in closing : \A k \in closing : j <= k
         IN  IF c[i] \in {"\"", "'"} /\ closing /= {}
                /\ \A k \in (i + 1)..(j - 1) : c[k] /= "\n"
             THEN <<IF c[i] = "\"" THEN <<SubSeq(c, i + 1, j - 1), <<>>>>
                                   ELSE <<<<>>, SubSeq(c, i + 1, j - 1)>>>>
                  \o findall_quoted(c, j + 1)
             ELSE findall_quoted(c, i + 1)

\* the last position of the run of digits that starts at position i
RECURSIVE digits_end(_, _)
digits_end(c, i) == IF i < Len(c) /\ c[i + 1] \in Digits THEN digits_end(c, i + 1) ELSE i

\* \b behind position e, which holds a digit
word_boundary_after(c, e) == e = Len(c) \/ c[e + 1] \notin WordChars

\* re.findall(r'\b\d+(\.\d+)?\b', c), scanning from position i: the pattern
\* has one group, so findall returns what the group took, the fraction with
\* its point, and the empty string where the group took no part
RECURSIVE findall_number_group(_, _)
findall_number_group(c, i) ==
    IF i > Len(c) THEN <<>>
    ELSE IF c[i] \in Digits /\ (i = 1 \/ c[i - 1] \notin WordChars)
         THEN LET j == digits_end(c, i)
                  k == IF j + 2 <= Len(c) /\ c[j + 1] = "." /\ c[j + 2] \in Digits
                       THEN digits_end(c, j + 2) ELSE j
              IN  IF k > j /\ word_boundary_after(c, k)
                  THEN <<SubSeq(c, j + 1, k)>> \o findall_number_group(c, k + 1)
                  ELSE IF word_boundary_after(c, j)
                       THEN <<<<>>>> \o findall_number_group(c, j + 1)
                       ELSE findall_number_group(c, i + 1)
         ELSE findall_number_group(c, i + 1)

RECURSIVE IRExpression_get_constants(_)
RECURSIVE IRIf_get_constants(_)

IRExpression_get_constants(self) ==
    UNION { IF child.t = "IRIf" THEN IRIf_get_constants(child)
            ELSE IF isinstance_str(child)
                 THEN { Text(IF sc[1] /= <<>> THEN sc[1] ELSE sc[2]) :
                        sc \in Range(findall_quoted(str_chars(child), 1)) }
                      \cup { Text(nc) : nc \in Range(findall_number_group(str_chars(child), 1)) }
                 ELSE {} : child \in Range(self.children) }

IRIf_get_constants(self) ==
    UNION { IRExpression_get_constants(row.condition)
            \cup IRExpression_get_constants(row.result) : row \in Range(self.rows) }
    \cup IRExpression_get_constants(self.otherwise)

\* `sub in s`
str_contains(s, sub) ==
    \E i \in 1..(Len(s) - Len(sub) + 1) : SubSeq(s, i, i + Len(sub) - 1) = sub

\* s.replace(old, new) from position i on: the occurrences of old from left
\* to right, none overlapping another; an empty old stands before every
\* character and at the end
RECURSIVE str_replace(_, _, _, _)
str_replace(s, old, new, i) ==
    IF old = <<>>
    THEN new \o (IF i > Len(s) THEN <<>> ELSE <<s[i]>> \o str_replace(s, old, new, i + 1))
    ELSE IF i > Len(s) THEN <<>>
    ELSE IF i + Len(old) - 1 <= Len(s) /\ SubSeq(s, i, i + Len(old) - 1) = old
         THEN new \o str_replace(s, old, new, i + Len(old))
         ELSE <<s[i]>> \o str_replace(s, old, new, i + 1)

\* str(n) of an index
RECURSIVE str_int(_)
str_int(n) ==
    LET digit == <<"0", "1", "2", "3", "4", "5", "6", "7", "8", "9">>[(n % 10) + 1]
    IN  IF n < 10 THEN <<digit>> ELSE str_int(n \div 10) \o <<digit>>

\* f"{{v{i}}}"
placeholder(i) == <<"{", "v">> \o str_int(i) \o <<"}">>

\* the loop over enumerate(parameters) of to_template, from the i-th
\* parameter on (which enumerate numbers i - 1)
RECURSIVE template_text(_, _, _)
template_text(child, parameters, i) ==
    IF i > Len(parameters) THEN child
    ELSE LET par == str_chars(parameters[i])
         IN  template_text(IF str_contains(child, par)
                           THEN str_replace(child, par, placeholder(i - 1), 1)
                           ELSE child,
                           parameters, i + 1)

RECURSIVE IRExpression_to_template(_, _)
RECURSIVE IRIf_to_template(_, _)

IRExpression_to_template(self, parameters) ==
    IRExpression([k \in DOMAIN self.children |->
                    LET child == self.children[k]
                    IN  IF child.t = "IRIf" THEN IRIf_to_template(child, parameters)
                        ELSE Text(template_text(str_chars(child), parameters, 1))])

IRIf_to_template(self, parameters) ==
    IRIf([k \in DOMAIN self.rows |->
            IRIfRow(IRExpression_to_template(self.rows[k].condition, parameters),
                    IRExpression_to_template(self.rows[k].result, parameters))],
         IRExpression_to_template(self.otherwise, parameters))

\* the loop over enumerate(parameters) of partial_apply, from the i-th
\* parameter on: the placeholder is looked for only where the parameter's
\* own text stands in the child
RECURSIVE apply_text(_, _, _, _)
apply_text(child, parameters, values, i) ==
    IF i > Len(parameters) THEN child
    ELSE LET par == str_chars(parameters[i])
         IN  apply_text(IF str_contains(child, par)
                        THEN str_replace(child, placeholder(i - 1), str_chars(values[i]), 1)
                        ELSE child,
                        parameters, values, i + 1)

\* class IRIf defines emmit, from_if, get_dependencies, get_constants and
\* to_template, and no partial_apply
IRIf_partial_apply(self, parameters, values) == Raise("AttributeError")

\* the children are taken in order; the first IRIf among them ends the call
IRExpression_partial_apply(self, parameters, values) ==
    IF \E k \in DOMAIN self.children : self.children[k].t = "IRIf"
    THEN IRIf_partial_apply(self.children[CHOOSE k \in DOMAIN self.children :
                                             self.children[k].t = "IRIf"],
                            parameters, values)
    ELSE Ok(IRExpression([k \in DOMAIN self.children |->
                            Text(apply_text(str_chars(self.children[k]),
                                            parameters, values, 1))]))

RECURSIVE IRExpression_emmit(_)
RECURSIVE IRExpression_emmit_parts(_)
RECURSIVE IRIf_emmit(_)
RECURSIVE IRIf_emmit_rows(_)

\* the parts of the bracketed form: empty strings and None are left out
IRExpression_emmit_parts(children) ==
    IF children = <<>> THEN <<>>
    ELSE LET child == Head(children)
         IN  (IF child = NoneVal \/ child = Str("") THEN <<>>
              ELSE IF child.t = "IRIf" THEN <<IRIf_emmit(child)>>
              ELSE <<[src |-> "quoted", s |-> child.s]>>)
             \o IRExpression_emmit_parts(Tail(children))

IRExpression_emmit(self) ==
    IF Len(self.children) = 1 /\ isinstance_str(self.children[1])
    THEN [src |-> "bare", s |-> self.children[1].s]
    ELSE [src |-> "brackets", parts |-> IRExpression_emmit_parts(self.children)]

IRIfRow_emmit(self) ==
    [src |-> "IfRow(", condition |-> IRExpression_emmit(self.condition),
     result |-> IRExpression_emmit(self.result)]

IRIf_emmit_rows(rows) ==
    IF rows = <<>> THEN <<>>
    ELSE <<IRIfRow_emmit(Head(rows))>> \o IRIf_emmit_rows(Tail(rows))

IRIf_emmit(self) ==
    [src |-> "If(", rows |-> IRIf_emmit_rows(self.rows),
     otherwise |-> IRExpression_emmit(self.otherwise)]

\* f"{cls}(name={self.name}, expression={...})": the name goes out bare
IRItem_emmit(self) ==
    [src |-> "call", class |-> self.item.cls,
     name |-> [src |-> "bare", s |-> self.name.s],
     expression |-> IRExpression_emmit(self.expression)]

SrcLine(text) == [line |-> text]
AppendLine(expr) == [line |-> "items.append(", expr |-> expr]

\* the loop of IRCalcSet.emmit; no class of the module has emmit_lines, and
\* an IRLoop has no emmit either
RECURSIVE IRCalcSet_emmit_items(_)
IRCalcSet_emmit_items(its) ==
    IF its = <<>> THEN Ok(<<>>)
    ELSE Bind(IF Head(its).t = "IRItem" THEN Ok(AppendLine(IRItem_emmit(Head(its))))
              ELSE Raise("AttributeError"),
              LAMBDA h : Bind(IRCalcSet_emmit_items(Tail(its)),
                              LAMBDA r : Ok(<<h>> \o r)))

IRCalcSet_emmit(self) ==
    Bind(IRCalcSet_emmit_items(self.items),
         LAMBDA lines :
             Ok(<<SrcLine("from pollywog import CalcSet, Number, Variable, Category, Filter, If, IfRow"),
                  SrcLine(""), SrcLine("items = []"), SrcLine("")>>
                \o lines
                \o <<SrcLine(""), SrcLine("calcset = CalcSet(items)"), SrcLine("calcset")>>))

\* exec(snippet, ns); ns["calcset"] as tests/test_decomp.py runs it.  An
\* items.append line calls an Item class with name=<bare name> and with the
\* keyword expression=, which Item.__init__ does not take: evaluating the
\* bare name raises before the call is made.
RECURSIVE exec_lines(_, _)
exec_lines(lines, env) ==
    IF lines = <<>> THEN Ok(env)
    ELSE LET ln == Head(lines)
         IN  CASE ln.line \in {"", "calcset"} -> exec_lines(Tail(lines), env)
               [] ln.line = "from pollywog import CalcSet, Number, Variable, Category, Filter, If, IfRow" ->
                      exec_lines(Tail(lines), env)
               [] ln.line = "items = []" ->
                      exec_lines(Tail(lines), [env EXCEPT !.items = <<>>])
               [] ln.line = "calcset = CalcSet(items)" ->
                      exec_lines(Tail(lines), [env EXCEPT !.calcset = CalcSetObj(env.items)])
               [] ln.line = "items.append(" -> Raise("NameError")
               [] OTHER -> Raise("SyntaxError")

exec_snippet(snippet) ==
    Bind(exec_lines(snippet, [items |-> NoneVal, calcset |-> NoneVal]),
         LAMBDA ns : IF ns.calcset = NoneVal THEN Raise("KeyError") ELSE Ok(ns.calcset))

(***************************************************************************)
(* The evaluator, run.py.  An expression text is evaluated by Python's     *)
(* eval once every [name] has been rewritten to a lookup in the context.   *)
(* The texts evaluated here are written in this fragment of Python: the    *)
(* operands are [name] lookups, bare names, integer literals and quoted    *)
(* strings; the operators are * and / over + and - over one comparison.    *)
(* A text that is not an expression raises SyntaxError; numerals with a    *)
(* fraction, parentheses and the words of Python are outside the fragment. *)
(***************************************************************************)
Num(n) == [t |-> "int", n |-> n]
Token(k, c) == [k |-> k, c |-> c]
ComparisonOps == {<<">">>, <<"<">>, <<">", "=">>, <<"<", "=">>, <<"=", "=">>, <<"!", "=">>}
AdditiveOps == {<<"+">>, <<"-">>}
MultiplicativeOps == {<<"*">>, <<"/">>}

\* the last position of the run of word characters that starts at position i
RECURSIVE word_end(_, _)
word_end(c, i) == IF i < Len(c) /\ c[i + 1] \in WordChars THEN word_end(c, i + 1) ELSE i

\* the tokens of re.sub(r"\[([^\]]+)\]", repl, expr) from position i on: a
\* bracketed name has become the subscript context['name'], one operand
RECURSIVE tokens(_, _)
tokens(c, i) ==
    IF i > Len(c) THEN <<>>
    ELSE LET closing == { j \in (i + 2)..Len(c) : c[j] = "]" }
             quote == { j \in (i + 1)..Len(c) : c[j] = c[i] }
         IN  CASE c[i] = " " -> tokens(c, i + 1)
               [] c[i] = "[" /\ i < Len(c) /\ c[i + 1] /= "]" /\ closing /= {} ->
                      LET j == CHOOSE j \in closing : \A k \in closing : j <= k
                      IN  <<Token("subscript", SubSeq(c, i + 1, j - 1))>> \o tokens(c, j + 1)
               [] c[i] \in {"'", "\""} /\ quote /= {} ->
                      LET j == CHOOSE j \in quote : \A k \in quote : j <= k
                      IN  <<Token("string", SubSeq(c, i + 1, j - 1))>> \o tokens(c, j + 1)
               [] c[i] \in Digits /\ word_end(c, i) = digits_end(c, i)
                              /\ (digits_end(c, i) = Len(c) \/ c[digits_end(c, i) + 1] /= ".")
                              /\ (c[i] /= "0" \/ digits_end(c, i) = i) ->
                      <<Token("integer", SubSeq(c, i, digits_end(c, i)))>>
                      \o tokens(c, digits_end(c, i) + 1)
               [] c[i] \in WordChars \ Digits ->
                      <<Token("name", SubSeq(c, i, word_end(c, i)))>> \o tokens(c, word_end(c, i) + 1)
               [] i < Len(c) /\ SubSeq(c, i, i + 1) \in ComparisonOps ->
                      <<Token("operator", SubSeq(c, i, i + 1))>> \o tokens(c, i + 2)
               [] <<c[i]>> \in ComparisonOps \cup AdditiveOps \cup MultiplicativeOps ->
                      <<Token("operator", <<c[i]>>)>> \o tokens(c, i + 1)
               [] OTHER -> <<Token("error", <<c[i]>>)>>

\* int(digits) of an integer literal
RECURSIVE int_of(_)
int_of(digits) ==
    IF digits = <<>> THEN 0
    ELSE 10 * int_of(SubSeq(digits, 1, Len(digits) - 1))
         + (CHOOSE d \in 0..9 : str_int(d) = <<digits[Len(digits)]>>)

\* bool(v) of an evaluated value
bool(v) ==
    CASE v.t = "None" -> FALSE
      [] v.t = "bool" -> v.b
      [] v.t = "int" -> v.n /= 0
      [] v.t = "str" -> str_chars(v) /= <<>>
      [] OTHER -> truthy(v)

\* a number as the arithmetic sees it: True and False count as 1 and 0
is_number(v) == v.t \in {"int", "bool"}
number(v) == IF v.t = "bool" THEN (IF v.b THEN 1 ELSE 0) ELSE v.n

\* a < b of two character strings
RECURSIVE chars_less(_, _)
chars_less(a, b) ==
    CASE a = <<>> -> b /= <<>>
      [] b = <<>> -> FALSE
      [] Head(a) = Head(b) -> chars_less(Tail(a), Tail(b))
      [] OTHER -> LET order == <<"'", "0", "1", "2", "3", "4", "5", "6", "7", "8", "9",
                                 "A", "B", "C", "D", "E", "F", "G", "H", "I", "J", "K", "L", "M",
                                 "N", "O", "P", "Q", "R", "S", "T", "U", "V", "W", "X", "Y", "Z",
                                 "_", "a", "b", "c", "d", "e", "f", "g", "h", "i", "j", "k", "l",
                                 "m", "n", "o", "p", "q", "r", "s", "t", "u", "v", "w", "x", "y",
                                 "z">>
                      at(ch) == CHOOSE k \in DOMAIN order : order[k] = ch
                  IN  at(Head(a)) < at(Head(b))

\* a binary operator applied to two evaluated operands
binary(operator, a, b) ==
    CASE operator = <<"=", "=">> ->
             Ok(Bool(IF is_number(a) /\ is_number(b) THEN number(a) = number(b)
                     ELSE IF a.t = "str" /\ b.t = "str" THEN str_chars(a) = str_chars(b)
                     ELSE a = b))
      [] operator = <<"!", "=">> ->
             Ok(Bool(IF is_number(a) /\ is_number(b) THEN number(a) /= number(b)
                     ELSE IF a.t = "str" /\ b.t = "str" THEN str_chars(a) /= str_chars(b)
                     ELSE a /= b))
      [] operator \in ComparisonOps \ {<<"=", "=">>, <<"!", "=">>} ->
             IF is_number(a) /\ is_number(b)
             THEN Ok(Bool(CASE operator = <<">">> -> number(a) > number(b)
                            [] operator = <<"<">> -> number(a) < number(b)
                            [] operator = <<">", "=">> -> number(a) >= number(b)
                            [] operator = <<"<", "=">> -> number(a) <= number(b)))
             ELSE IF a.t = "str" /\ b.t = "str"
             THEN Ok(Bool(CASE operator = <<">">> -> chars_less(str_chars(b), str_chars(a))
                            [] operator = <<"<">> -> chars_less(str_chars(a), str_chars(b))
                            [] operator = <<">", "=">> -> ~chars_less(str_chars(a), str_chars(b))
                            [] operator = <<"<", "=">> -> ~chars_less(str_chars(b), str_chars(a))))
             ELSE Raise("TypeError")
      [] operator = <<"+">> ->
             IF is_number(a) /\ is_number(b) THEN Ok(Num(number(a) + number(b)))
             ELSE IF a.t = "str" /\ b.t = "str" THEN Ok(Text(str_chars(a) \o str_chars(b)))
             ELSE Raise("TypeError")
      [] operator = <<"-">> ->
             IF is_number(a) /\ is_number(b) THEN Ok(Num(number(a) - number(b)))
             ELSE Raise("TypeError")
      [] operator = <<"*">> ->
             IF is_number(a) /\ is_number(b) THEN Ok(Num(number(a) * number(b)))
             ELSE IF a.t = "str" /\ is_number(b)
             THEN Ok(Text([k \in 1..(Len(str_chars(a)) * (IF number(b) > 0 THEN number(b) ELSE 0))
                           |-> str_chars(a)[((k - 1) % Len(str_chars(a))) + 1]]))
             ELSE IF is_number(a) /\ b.t = "str"
             THEN Ok(Text([k \in 1..(Len(str_chars(b)) * (IF number(a) > 0 THEN number(a) ELSE 0))
                           |-> str_chars(b)[((k - 1) % Len(str_chars(b))) + 1]]))
             ELSE Raise("TypeError")
      [] operator = <<"/">> ->
             IF ~(is_number(a) /\ is_number(b)) THEN Raise("TypeError")
             ELSE IF number(b) = 0 THEN Raise("ZeroDivisionError")
             ELSE IF number(a) % number(b) = 0 THEN Ok(Num(number(a) \div number(b)))
             ELSE Ok([t |-> "float", numerator |-> number(a), denominator |-> number(b)])

\* eval(expr_eval, {"context": context, **LEAPFROG_ENV}, context) of a token
\* sequence: a subscript is context[name], a bare name is a local of the
\* context; the left operand is evaluated before the right one
RECURSIVE eval(_, _)
eval(ts, context) ==
    LET at(ops) == { p \in DOMAIN ts : ts[p].k = "operator" /\ ts[p].c \in ops }
        last(ps) == CHOOSE p \in ps : \A q \in ps : q <= p
        split(p) == Bind(eval(SubSeq(ts, 1, p - 1), context),
                         LAMBDA a : Bind(eval(SubSeq(ts, p + 1, Len(ts)), context),
                                         LAMBDA b : binary(ts[p].c, a, b)))
    IN  CASE ts = <<>> \/ \E p \in DOMAIN ts : ts[p].k = "error" -> Raise("SyntaxError")
          [] Len(ts) = 1 /\ ts[1].k = "subscript" ->
                 IF ts[1].c \in DOMAIN context THEN Ok(context[ts[1].c]) ELSE Raise("KeyError")
          [] Len(ts) = 1 /\ ts[1].k = "name" ->
                 IF ts[1].c \in DOMAIN context THEN Ok(context[ts[1].c]) ELSE Raise("NameError")
          [] Len(ts) = 1 /\ ts[1].k = "integer" -> Ok(Num(int_of(ts[1].c)))
          [] Len(ts) = 1 /\ ts[1].k = "string" -> Ok(Text(ts[1].c))
          [] Cardinality(at(ComparisonOps)) = 1 -> split(last(at(ComparisonOps)))
          [] at(ComparisonOps) = {} /\ at(AdditiveOps) /= {} -> split(last(at(AdditiveOps)))
          [] at(ComparisonOps) = {} /\ at(AdditiveOps) = {} /\ at(MultiplicativeOps) /= {} ->
                 split(last(at(MultiplicativeOps)))
          [] OTHER -> Raise("SyntaxError")

\* expr.strip() is empty: nothing but white space
str_is_blank(c) == \A i \in DOMAIN c : c[i] \in {" ", "\t", "\n"}

\* x[0] of a list, a tuple or a string
first(x) ==
    CASE x.t = "list" -> IF x.l = <<>> THEN Raise("IndexError") ELSE Ok(x.l[1])
      [] x.t = "tuple" -> IF x.tl = <<>> THEN Raise("IndexError") ELSE Ok(x.tl[1])
      [] x.t = "str" -> IF str_chars(x) = <<>> THEN Raise("IndexError")
                        ELSE Ok(Text(<<str_chars(x)[1]>>))
      [] OTHER -> Raise("TypeError")

RECURSIVE eval_expr(_, _)
RECURSIVE eval_expr_rows(_, _, _)

eval_expr_rows_last_match(rows, otherwise, context) ==
    IF rows = <<>>
    THEN IF bool(otherwise)
         THEN Bind(first(otherwise), LAMBDA e : eval_expr(e, context))
         ELSE Ok(NoneVal)
    ELSE Bind(getattr(rows[Len(rows)], "condition"), LAMBDA condition :
         Bind(IF bool(condition)
              THEN Bind(first(condition), LAMBDA e : eval_expr(e, context))
              ELSE Ok(Bool(TRUE)), LAMBDA cond :
         IF bool(cond)
         THEN Bind(getattr(rows[Len(rows)], "value"), LAMBDA value :
              Bind(first(value), LAMBDA e : eval_expr(e, context)))
         ELSE eval_expr_rows(SubSeq(rows, 1, Len(rows) - 1), otherwise, context)))

\* the loop over expr.rows of eval_expr from the given rows on, and what
\* follows it: the first row whose condition is truthy returns its value
eval_expr_rows(rows, otherwise, context) ==
    IF rows = <<>>
    THEN IF bool(otherwise)
         THEN Bind(first(otherwise), LAMBDA e : eval_expr(e, context))
         ELSE Ok(NoneVal)
    ELSE Bind(getattr(Head(rows), "condition"), LAMBDA condition :
         Bind(IF bool(condition)
              THEN Bind(first(condition), LAMBDA e : eval_expr(e, context))
              ELSE Ok(Bool(TRUE)), LAMBDA cond :
         IF bool(cond)
         THEN Bind(getattr(Head(rows), "value"), LAMBDA value :
              Bind(first(value), LAMBDA e : eval_expr(e, context)))
         ELSE eval_expr_rows(Tail(rows), otherwise, context)))

eval_expr_uncaught(expr, context) ==
    CASE isinstance_str(expr) ->
             IF str_is_blank(str_chars(expr)) THEN Ok(NoneVal)
             ELSE eval(tokens(str_chars(expr), 1), context)
      [] expr.t = "If" ->
             Bind(iterate(expr.rows),
                  LAMBDA rows : eval_expr_rows(rows, expr.otherwise, context))
      [] expr.t = "IfRow" -> Ok(NoneVal)
      [] OTHER -> Ok(expr)

\* eval_expr of run_calcset: every exception of eval is caught
eval_expr(expr, context) ==
    CASE isinstance_str(expr) ->
             IF str_is_blank(str_chars(expr)) THEN Ok(NoneVal)
             ELSE LET value == eval(tokens(str_chars(expr), 1), context)
                  IN  IF IsOk(value) THEN value ELSE Ok(NoneVal)
      [] expr.t = "If" ->
             Bind(iterate(expr.rows),
                  LAMBDA rows : eval_expr_rows(rows, expr.otherwise, context))
      [] expr.t = "IfRow" -> Ok(NoneVal)
      [] OTHER -> Ok(expr)

\* {**context, **results}
merged(context, results) ==
    [k \in DOMAIN context \cup DOMAIN results |->
        IF k \in DOMAIN results THEN results[k] ELSE context[k]]

\* results[key] = value
assigned(results, key, value) ==
    [k \in DOMAIN results \cup {key} |-> IF k = key THEN value ELSE results[k]]

\* the loop over item.children of run_single
RECURSIVE child_results(_, _)
child_results(children, context) ==
    IF children = <<>> THEN Ok(<<>>)
    ELSE Bind(eval_expr(Head(children), context), LAMBDA r :
         Bind(child_results(Tail(children), context), LAMBDA rs : Ok(<<r>> \o rs)))

RECURSIVE run_single_items(_, _, _)
run_single_items_back_to_front(sorted_items, context, results) ==
    IF sorted_items = <<>> THEN Ok(results)
    ELSE LET item == sorted_items[Len(sorted_items)]
             rest == SubSeq(sorted_items, 1, Len(sorted_items) - 1)
             name == str_chars(item.name)
         IN  IF item_type(item.cls) = Str("variable")
             THEN run_single_items(rest, context,
                      assigned(results, name,
                               IF name \in DOMAIN context THEN context[name] ELSE NoneVal))
             ELSE Bind(iterate(item.children), LAMBDA children :
                  Bind(child_results(children, merged(context, results)), LAMBDA rs :
                  run_single_items(rest, context,
                      assigned(results, name, IF rs = <<>> THEN NoneVal ELSE rs[1]))))

\* the loop over sorted_items of run_single, from the given items on
run_single_items(sorted_items, context, results) ==
    IF sorted_items = <<>> THEN Ok(results)
    ELSE LET item == Head(sorted_items)
             name == str_chars(item.name)
         IN  IF item_type(item.cls) = Str("variable")
             THEN run_single_items(Tail(sorted_items), context,
                      assigned(results, name,
                               IF name \in DOMAIN context THEN context[name] ELSE NoneVal))
             ELSE Bind(iterate(item.children), LAMBDA children :
                  Bind(child_results(children, merged(context, results)), LAMBDA rs :
                  run_single_items(Tail(sorted_items), context,
                      assigned(results, name, IF rs = <<>> THEN NoneVal ELSE rs[1]))))

\* run_single of run_calcset; a mapping is keyed by the characters of the
\* names
run_single(sorted_items, context, output_variables) ==
    Bind(run_single_items(sorted_items, context, <<>>), LAMBDA results :
         LET item_type_map(k) ==
                 LET ps == { p \in DOMAIN sorted_items : str_chars(sorted_items[p].name) = k }
                 IN  item_type(sorted_items[CHOOSE p \in ps : \A q \in ps : q <= p].cls)
         IN  IF output_variables THEN Ok(Dict(results))
             ELSE Ok(Dict([k \in { k \in DOMAIN results : item_type_map(k) /= Str("variable") }
                           |-> results[k]])))

\* the names an item refers to: the bracketed names of every text of its
\* expression, the conditions, values and otherwise of its conditionals
\* included
RECURSIVE references(_)
references(x) ==
    CASE x.t = "Item" -> references(x.children)
      [] x.t = "str" -> Range(findall_bracketed(str_chars(x), 1))
      [] x.t = "list" -> UNION { references(x.l[i]) : i \in DOMAIN x.l }
      [] x.t = "tuple" -> UNION { references(x.tl[i]) : i \in DOMAIN x.tl }
      [] x.t = "If" -> references(x.rows) \cup references(x.otherwise)
      [] x.t = "IfRow" -> references(x.condition) \cup references(x.value)
      [] OTHER -> {}

\* calcset.topological_sort(): a calculation set of the same items in which
\* every item stands behind the items it refers to; among the orders that
\* do so the choice is open
topological_sort(calcset) ==
    { CalcSetObj([i \in DOMAIN calcset.items |-> calcset.items[p[i]]]) :
        p \in { p \in [DOMAIN calcset.items -> DOMAIN calcset.items] :
                  /\ \A i, j \in DOMAIN p : i /= j => p[i] /= p[j]
                  /\ \A i, j \in DOMAIN p :
                        str_chars(calcset.items[p[j]].name) \in references(calcset.items[p[i]])
                        /\ i /= j => j < i } }

\* run_calcset(calcset, inputs=inputs, output_variables=output_variables)
\* with the items in the order the sort has returned
run_calcset(sorted, inputs, output_variables) ==
    run_single(sorted.items, IF inputs = NoneVal THEN <<>> ELSE inputs.d, output_variables)

CalcSet_add_other_first(self, other) ==
    IF other.t /= "CalcSet" THEN Ok([t |-> "NotImplemented"])
    ELSE Ok(CalcSetObj(other.items \o self.items))

\* self.items and other.items once __add__ has returned: list.__add__ builds
\* a new list and assigns to neither operand
CalcSet_add_operands(self, other) ==
    IF other.t /= "CalcSet" THEN <<self, other>>
    ELSE <<CalcSetObj(self.items), CalcSetObj(other.items)>>

\* CalcSet.__add__
CalcSet_add(self, other) ==
    IF other.t /= "CalcSet" THEN Ok([t |-> "NotImplemented"])
    ELSE Ok(CalcSetObj(self.items \o other.items))

(***************************************************************************)
(* The inputs of the session: the items a calculation set is built from.   *)
(* Sequence-valued attributes are Python lists, or, as the sklearn         *)
(* converter builds them, a bare string or a bare If.                      *)
(***************************************************************************)
Number(name, children) == ItemObj("Number", Str(name), children, Str(""), Str(""))
Category(name, children) == ItemObj("Category", Str(name), children, Str(""), Str(""))
Variable(name, children) == ItemObj("Variable", Str(name), children, Str(""), Str(""))
Filter(name, children) == ItemObj("Filter", Str(name), children, Str(""), Str(""))

\* tests/test_decomp.py, test_if_expression
GradeIf ==
    IfObj(List(<<IfRowObj(List(<<Str("[Au] > 1")>>), List(<<Str("High")>>))>>),
          List(<<Str("Low")>>))
\* conversion/sklearn.py, convert_tree: If(IfRow(str, left), right), nested
TreeIf ==
    IfObj(IfRowObj(Str("[x] <= 1"),
                   IfObj(IfRowObj(Str("[y] <= 2"), Str("1.0")), Str("2.0"))),
          Str("3.0"))
\* an already serialized row, as If.__init__ admits it
SerializedRow ==
    IfRow_to_dict(IfRowObj(List(<<Str("[z] > 3")>>), List(<<GradeIf>>))).val
\* rows given as a (condition, value) tuple and as a dictionary; an otherwise
\* branch that is itself a conditional without rows
MixIf ==
    IfObj(List(<<Tuple(<<List(<<Str("[x] > 0")>>), List(<<Str("'A'")>>)>>),
                 SerializedRow>>),
          List(<<IfObj(List(<<>>), List(<<Str("'C'")>>))>>))

ItemUniverse ==
    { ItemObj("Variable", Str("v"), List(<<Str("x")>>), Str("ci"), Str("ce")),
      Filter("f", List(<<Str("[x] > 0")>>)),
      Number("out1", List(<<Str("[a] + [b]")>>)),
      Number("out2", List(<<Str("[c] + [d]")>>)),
      Number("tree", TreeIf),
      Category("mix", List(<<Str("'B' + "), MixIf>>)) }

cs == CalcSetObj(items)

(***************************************************************************)
(* Dictionaries handed to from_dict: what to_dict produced for cs, and     *)
(* damaged copies of it.                                                   *)
(***************************************************************************)
retag(x, ty) == Dict([x.d EXCEPT !["type"] = Str(ty)])
only_type(ty) == Dict([type |-> Str(ty)])
without_key(x, k) == Dict([j \in DOMAIN x.d \ {k} |-> x.d[j]])
replace_at(xs, i, x) == [xs EXCEPT ![i] = x]

BadItemDicts(x) ==
    { only_type("unknown"), retag(x, "unknown"), only_type("if"),
      If_to_dict(IfObj(List(<<>>), List(<<Str("0")>>))).val,
      without_key(x, "calculation_type"),
      Dict(("calculation_type" :> Str("boolean")) @@ x.d),
      Dict([x.d EXCEPT !["equation"] = retag(x.d["equation"], "not-equation")]) } \ {x}

EncodedDicts ==
    { r.val : r \in { r \in {CalcSet_to_dict(cs, TRUE), CalcSet_to_dict(cs, FALSE)} :
                      IsOk(r) } }

\* d with its i-th item dictionary replaced by a damaged one
DamagedItems(d) ==
    LET ds == d.d["items"].l
    IN  UNION { { Dict([d.d EXCEPT !["items"] = List(replace_at(ds, i, b))]) :
                  b \in BadItemDicts(ds[i]) } : i \in 1..Len(ds) }

\* damage done to the dictionary in insertion order
DamagedDicts ==
    UNION { { retag(d, "not-calcset"), only_type("not-calcset") } \cup DamagedItems(d) :
            d \in { r.val : r \in { r \in {CalcSet_to_dict(cs, FALSE)} : IsOk(r) } } }

\* conditionals and rows encoded on their own
IfInputs == { GradeIf, TreeIf, MixIf, TreeIf.rows.value }
IfRowInputs ==
    { IfRowObj(List(<<Str("[z] > 3")>>), List(<<GradeIf>>)), TreeIf.rows,
      IfRowObj(List(<<GradeIf>>), List(<<Str("'A'"), MixIf>>)),
      IfRowObj(List(<<>>), List(<<TreeIf, Str("'C'")>>)) }

IfDictInputs ==
    { If_to_dict(GradeIf).val, If_to_dict(TreeIf).val, If_to_dict(MixIf).val,
      only_type("not_if"), only_type("if_row"), retag(If_to_dict(GradeIf).val, "iff"),
      \* an otherwise wrapper with a foreign tag; a child dictionary without a tag
      Dict([If_to_dict(GradeIf).val.d EXCEPT
                !["otherwise"] = retag(If_to_dict(GradeIf).val.d["otherwise"], "not-list")]),
      Dict([If_to_dict(GradeIf).val.d EXCEPT
                !["otherwise"] = ListNode(List(<<Str("Low"),
                                                 without_key(If_to_dict(GradeIf).val, "type"),
                                                 Str("")>>))]) }

IfRowDictInputs ==
    { SerializedRow, IfRow_to_dict(TreeIf.rows).val,
      only_type("not_if_row"), only_type("if"), retag(SerializedRow, "row"),
      \* a test wrapper without a tag
      Dict([SerializedRow.d EXCEPT !["test"] = without_key(SerializedRow.d["test"], "type")]) }

\* IR nodes handed to the analyses of the decompiler: expressions of one
\* text, the conditional of tests/test_decomp.py, conditionals inside rows
\* and inside otherwise branches
NestedIRIf ==
    IRIf(<<IRIfRow(IRExpression(<<Str("[x] > 0")>>), IRExpression(<<Str("'A'")>>)),
           IRIfRow(IRExpression(<<Str("[z] > 3")>>),
                   IRExpression(<<IRIf_from_if(GradeIf).val>>))>>,
         IRExpression(<<Str("'B' + "), IRIf(<<>>, IRExpression(<<Str("[y] <= 2")>>))>>))

IRInputs ==
    { IRExpression(<<Str("[Au] * 2 + [Ag]")>>), IRExpression(<<Str("[Au] * 2 + 3.5")>>),
      IRExpression(<<Str("\"High\"")>>), IRExpression(<<Str("High"), Str("")>>),
      IRExpression(<<>>), IRIf_from_if(GradeIf).val, NestedIRIf,
      IRExpression(<<Str("[a] + [b]"), NestedIRIf>>) }

\* right operands of cs + other: calculation sets as tests/test_core.py adds
\* them, and values that are no CalcSet
OtherOperands ==
    { CalcSetObj(<<>>),
      CalcSetObj(<<Number("out2", List(<<Str("[c] + [d]")>>)),
                   ItemObj("Variable", Str("v"), List(<<Str("x")>>), Str("ci"), Str("ce"))>>),
      CalcSetObj(<<Filter("f", List(<<Str("[x] > 0")>>))>>),
      List(<<Filter("f", List(<<Str("[x] > 0")>>))>>),
      NoneVal }

\* a conditional that holds conditionals, in a row and in its otherwise branch
NestedIf ==
    IfObj(List(<<IfRowObj(List(<<Str("[z] > 3")>>), List(<<GradeIf>>))>>),
          List(<<Str("'B' + "), IfObj(List(<<>>), List(<<Str("'C'")>>))>>))

\* a conditional whose sequences all begin and end with a text fragment, some
\* of them holding a conditional in between
BoundedIf ==
    IfObj(List(<<IfRowObj(List(<<Str("[x] > 0")>>),
                          List(<<Str("'A'"), GradeIf, Str("'C'")>>)),
                 IfRowObj(List(<<Str("[z] > 3")>>), List(<<Str("1.0")>>))>>),
          List(<<Str("'B' + "), GradeIf, Str("0")>>))

\* items encoded and decoded on their own
ItemInputs ==
    ItemUniverse \cup { Number("n1", List(<<Str("1.0"), BoundedIf, Str("2.0")>>)) }

\* parameter lists handed to to_template: names and constants of the texts
\* above, and a name that the placeholders spell
ParameterLists ==
    { <<>>,
      <<Text(<<"A", "u">>)>>,
      <<Text(<<"A", "u">>), Text(<<"2">>)>>,
      <<Text(<<"x">>), Text(<<"z">>), Text(<<"A">>)>>,
      <<Text(<<"1">>), Text(<<"0">>)>>,
      <<Text(<<"A", "u">>), Text(<<"v">>)>>,
      <<Text(<<"A">>), Text(<<"A", "u">>)>> }

\* values other than the parameters to instantiate a template with, one for
\* each parameter
OtherValues(P) == [i \in DOMAIN P |-> Text(<<"A", "g">>)]

\* the receiver and the arguments of a call
Call(self, parameters, values) ==
    [t |-> "call", self |-> self, parameters |-> parameters, values |-> values]

(***************************************************************************)
(* The calculation sets and input mappings handed to run_calcset.          *)
(***************************************************************************)
\* tests/test_integration.py, test_topological_sort_integration: the items
\* are declared in an order other than the one they depend on each other in
ScrambledItems ==
    <<Number("k", List(<<Str("[m] + 1")>>)),
      Variable("x", List(<<Str("")>>)),
      Number("m", List(<<Str("[x] * 2")>>))>>

\* tests/test_integration.py, test_error_recovery_integration
FailingItems ==
    <<Variable("x", List(<<Str("")>>)),
      Number("bad", List(<<Str("[x] / 0")>>)),
      Number("dep", List(<<Str("[bad] + 1")>>)),
      Number("m", List(<<Str("[x] * 2")>>))>>

\* tests/test_integration.py, test_complex_conditional_workflow: conditions
\* that hold together
BandIf ==
    IfObj(List(<<IfRowObj(List(<<Str("[x] > 5")>>), List(<<Str("1")>>)),
                 IfRowObj(List(<<Str("[x] > 2")>>), List(<<Str("2")>>)),
                 IfRowObj(List(<<Str("[x] > 0")>>), List(<<Str("3")>>))>>),
          List(<<Str("'F'")>>))

\* a conditional as the result of a row and as the otherwise branch
BranchIf ==
    IfObj(List(<<IfRowObj(List(<<Str("[x] > 2")>>), List(<<BandIf>>))>>),
          List(<<IfObj(List(<<>>), List(<<Str("3")>>))>>))

\* the rows written as (condition, value) tuples
PairIf ==
    IfObj(List(<<Tuple(<<List(<<Str("[x] > 2")>>), List(<<Str("2")>>)>>)>>),
          List(<<Str("3")>>))

Permuted(its) ==
    { [i \in DOMAIN its |-> its[p[i]]] :
        p \in { p \in [DOMAIN its -> DOMAIN its] : \A i, j \in DOMAIN its : i /= j => p[i] /= p[j] } }

RunCalcSets ==
    { CalcSetObj(its) : its \in Permuted(ScrambledItems) } \cup
    { CalcSetObj(FailingItems),
      CalcSetObj(<<FailingItems[1], FailingItems[3], FailingItems[4]>>),
      CalcSetObj(<<Variable("x", List(<<Str("")>>)), Number("n", List(<<BandIf>>))>>),
      CalcSetObj(<<Number("n", List(<<BranchIf>>)), Variable("x", List(<<Str("")>>))>>),
      CalcSetObj(<<Number("n", List(<<PairIf>>))>>),
      CalcSetObj(<<Variable("x", List(<<Str("")>>)), Variable("y", List(<<Str("")>>)),
                   Filter("k", List(<<Str("[x] > 2")>>)),
                   Number("m", List(<<Str("[x] + [y]")>>))>>) }

\* a serialized row whose result holds nothing
EmptyResultRow ==
    Dict([type |-> Str("if_row"),
          test |-> ListNode(List(<<Str("[x] > 0")>>)),
          result |-> ListNode(List(<<>>))])

\* objects with an empty sequence where an expression is expected, and a
\* conditional that was handed the serialized row
EmptyItems == { Number("n1", List(<<>>)), Filter("f", List(<<>>)) }
EmptyIfRows == { IfRowObj(List(<<Str("[x] > 0")>>), List(<<>>)) }
EmptyIfs ==
    { IfObj(List(<<IfRowObj(List(<<Str("[x] > 0")>>), List(<<Str("'A'")>>))>>), List(<<>>)),
      IfObj(List(<<>>), List(<<>>)),
      IfObj(List(<<EmptyResultRow>>), List(<<Str("Low")>>)) }

\* dictionaries with an empty list where an expression is expected
EmptyIfRowDicts == { EmptyResultRow }
EmptyIfDicts ==
    { Dict([If_to_dict(GradeIf).val.d EXCEPT !["otherwise"] = ListNode(List(<<>>))]),
      Dict([type |-> Str("if"), rows |-> List(<<EmptyResultRow>>),
            otherwise |-> ListNode(List(<<Str("Low")>>))]) }

\* the rows the spellings are taken of
BaseRows ==
    { IfRowObj(List(<<Str("[x] > 0")>>), List(<<Str("'A'")>>)),
      IfRowObj(List(<<Str("[z] > 3")>>), List(<<GradeIf>>)) }

\* a row as If.__init__ admits it: an IfRow, its dictionary, a (condition,
\* value) tuple or list
RowSpellings(r) ==
    { r, IfRow_to_dict(r).val,
      Tuple(<<r.condition, r.value>>), List(<<r.condition, r.value>>) }

\* rows of other shapes
OtherRows ==
    { Str("x"), NoneVal,
      Tuple(<<List(<<Str("[x] > 0")>>)>>),
      Tuple(<<List(<<Str("[x] > 0")>>), List(<<Str("'A'")>>), List(<<Str("'C'")>>)>>),
      List(<<List(<<Str("[x] > 0")>>), List(<<Str("'A'")>>), List(<<Str("'C'")>>)>>),
      Dict([type |-> Str("if")]),
      Dict([test |-> ListNode(List(<<Str("[x] > 0")>>))]) }

\* conditionals of two rows, the second in every spelling and shape
SpelledIfs ==
    { IfObj(List(<<a, b>>), List(<<Str("Low")>>)) :
        a \in UNION { RowSpellings(r) : r \in BaseRows },
        b \in UNION { RowSpellings(r) : r \in BaseRows } \cup OtherRows }

\* files that are not what to_lfcalc wrote into f: other bytes in front of
\* the payload, no header, and a payload with a damaged stream header
AlteredFiles(f) ==
    LET payload == SubSeq(f, Len(HEADER) + 1, Len(f))
    IN  IF payload = <<>> THEN {} ELSE
        { [i \in 1..Len(HEADER) |-> Byte(0)] \o payload,
          [i \in 1..Len(HEADER) |-> Byte(255)] \o payload,
          payload,
          HEADER \o <<Byte(0)>> \o Tail(payload) }

\* files that to_lfcalc did not write: no payload, and payloads that fail at
\* one of the steps of reading
ForeignFiles ==
    { HEADER,
      HEADER \o zlib_compress(<<Byte(255)>>),
      HEADER \o zlib_compress(encode([text |-> "not JSON"])),
      HEADER \o zlib_compress(encode(JArray(<<>>))),
      HEADER \o zlib_compress(encode(JObject(<<<<"type", JString("calculation")>>>>))) }

\* inputs: a mapping from names to values, or None
RunInputs ==
    { Dict((<<"x">> :> Num(x)) @@ (<<"y">> :> Num(4))) : x \in {0, 1, 3, 7} }
    \cup { NoneVal }

\* the arguments of a run_calcset call, with the order the sort returned
RunCall(calcset, inputs, output_variables, sorted) ==
    [t |-> "run", calcset |-> calcset, inputs |-> inputs,
     output_variables |-> output_variables, sorted |-> sorted]

(***************************************************************************)
(* The session.                                                            *)
(***************************************************************************)
Init ==
    /\ items = <<>>
    /\ op = "init"
    /\ arg = NoneVal
    /\ res = Ok(NoneVal)
    /\ file = <<>>

\* The session builds its calculation set and then applies one operation to
\* it, which a follow-up operation may take up (from_dict after to_dict,
\* read_lfcalc after to_lfcalc).
Building == op \in {"init", "add"}
\* the conditionals and rows under test are handled before any item is added
Fresh == op = "init"

\* cs = cs + CalcSet([it])
Add(it) ==
    /\ Building
    /\ Len(items) < MaxItems
    /\ items' = CalcSet_add(cs, CalcSetObj(<<it>>)).val.items
    /\ op' = "add"
    /\ arg' = it
    /\ res' = Ok(NoneVal)
    /\ UNCHANGED file

\* cs.__add__(other), the sum kept apart from cs; arg records both operands
\* as they were handed in and other as it is afterwards
Plus(other) ==
    /\ Building
    /\ op' = "plus"
    /\ arg' = [t |-> "operands", self |-> cs, other |-> other,
               other_after |-> CalcSet_add_operands(cs, other)[2]]
    /\ res' = CalcSet_add(cs, other)
    /\ items' = CalcSet_add_operands(cs, other)[1].items
    /\ UNCHANGED file

\* cs.to_dict(sort_items=s)
ToDict(s) ==
    /\ Building
    /\ op' = "to_dict"
    /\ arg' = Bool(s)
    /\ res' = CalcSet_to_dict(cs, s)
    /\ items' = CalcSet_after_to_dict(cs, s).items
    /\ UNCHANGED file

\* cs.to_dict(sort_items=s) once more, with the s of the call before; arg
\* keeps what that call returned
ToDictAgain ==
    /\ op = "to_dict"
    /\ op' = "to_dict_again"
    /\ arg' = [t |-> "again", sort_items |-> arg, first_result |-> res]
    /\ res' = CalcSet_to_dict(cs, arg.b)
    /\ items' = CalcSet_after_to_dict(cs, arg.b).items
    /\ UNCHANGED file

\* x.to_dict() of a conditional expression x
IfToDict(x) ==
    /\ Fresh
    /\ op' = "If.to_dict"
    /\ arg' = x
    /\ res' = If_to_dict(x)
    /\ UNCHANGED <<items, file>>

\* x.to_dict() of a conditional row x
IfRowToDict(x) ==
    /\ Fresh
    /\ op' = "IfRow.to_dict"
    /\ arg' = x
    /\ res' = IfRow_to_dict(x)
    /\ UNCHANGED <<items, file>>

\* CalcSet.from_dict(d)
FromDict(d) ==
    /\ op' = "from_dict"
    /\ arg' = from_dict_argument_after(d)
    /\ res' = CalcSet_from_dict(d)
    /\ UNCHANGED <<items, file>>

FromDictInput ==
    /\ Building
    /\ \E d \in EncodedDicts \cup DamagedDicts : FromDict(d)

\* cs2.to_dict(sort_items=False) of the cs2 that from_dict(d) returned; arg stays d
ReEncode ==
    /\ op = "from_dict"
    /\ IsOk(res)
    /\ op' = "re_encode"
    /\ res' = CalcSet_to_dict(res.val, FALSE)
    /\ UNCHANGED <<items, arg, file>>

\* If.from_dict(d)
IfFromDict(d) ==
    /\ Fresh
    /\ op' = "If.from_dict"
    /\ arg' = d
    /\ res' = If_from_dict(d)
    /\ UNCHANGED <<items, file>>

\* IfRow.from_dict(d)
IfRowFromDict(d) ==
    /\ Fresh
    /\ op' = "IfRow.from_dict"
    /\ arg' = d
    /\ res' = IfRow_from_dict(d)
    /\ UNCHANGED <<items, file>>

\* cs.to_lfcalc(buffer, sort_items=s) on an empty buffer: nothing is written
\* when the encoding raises
ToLfcalc(s) ==
    /\ Building
    /\ op' = "to_lfcalc"
    /\ arg' = Bool(s)
    /\ LET written == CalcSet_write_to_file(cs, s)
       IN  /\ file' = IF IsOk(written) THEN written.val ELSE file
           /\ res' = IF IsOk(written) THEN Ok(NoneVal) ELSE written
    /\ items' = CalcSet_after_to_dict(cs, s).items

\* CalcSet.read_lfcalc(buffer) on the buffer just written
ReadLfcalc ==
    /\ op = "to_lfcalc"
    /\ IsOk(res)
    /\ op' = "read_lfcalc"
    /\ res' = CalcSet_read_from_file(file)
    /\ UNCHANGED <<items, arg, file>>

\* CalcSet.read_lfcalc(buffer) on a buffer that holds an altered copy of the
\* file just written
ReadAltered(f) ==
    /\ op = "to_lfcalc"
    /\ IsOk(res)
    /\ op' = "read_altered"
    /\ arg' = [t |-> "file", bytes |-> f]
    /\ res' = CalcSet_read_from_file(f)
    /\ UNCHANGED <<items, file>>

\* CalcSet.read_lfcalc(buffer) on a buffer that to_lfcalc did not write
ReadForeign(f) ==
    /\ Fresh
    /\ op' = "read_foreign"
    /\ arg' = [t |-> "file", bytes |-> f]
    /\ res' = CalcSet_read_from_file(f)
    /\ UNCHANGED <<items, file>>

\* IRCalcSet.from_calcset(cs).emmit(): the decompiler's path from a
\* calculation set to source text
Decompile ==
    /\ Building
    /\ op' = "decompile"
    /\ arg' = cs
    /\ res' = Bind(IRCalcSet_from_calcset(cs), LAMBDA ir : IRCalcSet_emmit(ir))
    /\ UNCHANGED <<items, file>>

\* exec_snippet of tests/test_decomp.py on the emitted source
ExecSnippet ==
    /\ op = "decompile"
    /\ IsOk(res)
    /\ op' = "exec_snippet"
    /\ res' = exec_snippet(res.val)
    /\ UNCHANGED <<items, arg, file>>

\* n.get_dependencies() of an IR node n
GetDependencies(n) ==
    /\ Fresh
    /\ op' = "get_dependencies"
    /\ arg' = n
    /\ res' = Ok(SetOf(IF n.t = "IRIf" THEN IRIf_get_dependencies(n)
                                       ELSE IRExpression_get_dependencies(n)))
    /\ UNCHANGED <<items, file>>

\* n.get_constants() of an IR node n
GetConstants(n) ==
    /\ Fresh
    /\ op' = "get_constants"
    /\ arg' = n
    /\ res' = Ok(SetOf(IF n.t = "IRIf" THEN IRIf_get_constants(n)
                                       ELSE IRExpression_get_constants(n)))
    /\ UNCHANGED <<items, file>>

\* n.to_template(P) of an IR node n
ToTemplate(n, P) ==
    /\ Fresh
    /\ op' = "to_template"
    /\ arg' = Call(n, P, NoneVal)
    /\ res' = Ok(IF n.t = "IRIf" THEN IRIf_to_template(n, P)
                                 ELSE IRExpression_to_template(n, P))
    /\ UNCHANGED <<items, file>>

\* template.partial_apply(P, V) on the template that n.to_template(P)
\* returned, V being P itself or other values; arg keeps n and P, and takes V
PartialApply(same) ==
    /\ op = "to_template"
    /\ IsOk(res)
    /\ op' = "partial_apply"
    /\ LET V == IF same THEN arg.parameters ELSE OtherValues(arg.parameters)
       IN  /\ arg' = Call(arg.self, arg.parameters, V)
           /\ res' = IF res.val.t = "IRIf"
                     THEN IRIf_partial_apply(res.val, arg.parameters, V)
                     ELSE IRExpression_partial_apply(res.val, arg.parameters, V)
    /\ UNCHANGED <<items, file>>

\* IRCalcSet.from_calcset(cs)
FromCalcset ==
    /\ Building
    /\ op' = "from_calcset"
    /\ arg' = cs
    /\ res' = IRCalcSet_from_calcset(cs)
    /\ UNCHANGED <<items, file>>

\* IRIf.from_if(x) of a conditional expression x
FromIf(x) ==
    /\ Fresh
    /\ op' = "from_if"
    /\ arg' = x
    /\ res' = IRIf_from_if(x)
    /\ UNCHANGED <<items, file>>

\* x.to_dict() of an item x
ItemToDict(x) ==
    /\ Fresh
    /\ op' = "Item.to_dict"
    /\ arg' = x
    /\ res' = Item_to_dict(x)
    /\ UNCHANGED <<items, file>>

\* cls.from_dict(d) on the dictionary d that x.to_dict() returned, cls being
\* the class of x; arg stays x
ItemDecode ==
    /\ op = "Item.to_dict"
    /\ IsOk(res)
    /\ op' = "Item.decode"
    /\ res' = Item_from_dict(arg.cls, res.val)
    /\ UNCHANGED <<items, arg, file>>

\* If.from_dict(d) on the dictionary d that x.to_dict() returned; arg stays x
IfDecode ==
    /\ op = "If.to_dict"
    /\ IsOk(res)
    /\ op' = "If.decode"
    /\ res' = If_from_dict(res.val)
    /\ UNCHANGED <<items, arg, file>>

\* IfRow.from_dict(d) on the dictionary d that x.to_dict() returned; arg
\* stays x
IfRowDecode ==
    /\ op = "IfRow.to_dict"
    /\ IsOk(res)
    /\ op' = "IfRow.decode"
    /\ res' = IfRow_from_dict(res.val)
    /\ UNCHANGED <<items, arg, file>>

\* run_calcset(c, inputs=inputs, output_variables=ov)
RunCalcset(c, inputs, ov) ==
    /\ Fresh
    /\ \E sorted \in topological_sort(c) :
          /\ arg' = RunCall(c, inputs, ov, sorted)
          /\ res' = run_calcset(sorted, inputs, ov)
    /\ op' = "run_calcset"
    /\ UNCHANGED <<items, file>>

\* c.to_lfcalc(buffer), then run_calcset(CalcSet.read_lfcalc(buffer), ...)
\* with the arguments of the run before; arg keeps what that run returned
RunCalcsetOfFile ==
    /\ op = "run_calcset"
    /\ op' = "run_calcset_of_file"
    /\ LET written == CalcSet_write_to_file(arg.calcset, TRUE)
           read == IF IsOk(written) THEN CalcSet_read_from_file(written.val) ELSE written
       IN  /\ file' = IF IsOk(written) THEN written.val ELSE file
           /\ IF IsOk(read)
              THEN \E sorted \in topological_sort(read.val) :
                      /\ arg' = [t |-> "rerun", first |-> arg, first_result |-> res,
                                 calcset |-> read.val, sorted |-> sorted]
                      /\ res' = run_calcset(sorted, arg.inputs, arg.output_variables)
              ELSE /\ arg' = [t |-> "rerun", first |-> arg, first_result |-> res,
                              calcset |-> NoneVal, sorted |-> NoneVal]
                   /\ res' = read
    /\ UNCHANGED items

Next ==
    \/ \E it \in ItemUniverse : Add(it)
    \/ \E other \in OtherOperands : Plus(other)
    \/ \E s \in BOOLEAN : ToDict(s)
    \/ ToDictAgain
    \/ \E x \in IfInputs \cup {BoundedIf} \cup SpelledIfs \cup EmptyIfs : IfToDict(x)
    \/ \E x \in IfRowInputs \cup Range(BoundedIf.rows.l) \cup EmptyIfRows : IfRowToDict(x)
    \/ FromDictInput
    \/ ReEncode
    \/ \E d \in IfDictInputs \cup EmptyIfDicts : IfFromDict(d)
    \/ \E d \in IfRowDictInputs \cup EmptyIfRowDicts : IfRowFromDict(d)
    \/ \E s \in BOOLEAN : ToLfcalc(s)
    \/ ReadLfcalc
    \/ \E f \in AlteredFiles(file) : ReadAltered(f)
    \/ \E f \in ForeignFiles : ReadForeign(f)
    \/ Decompile
    \/ ExecSnippet
    \/ \E n \in IRInputs : GetDependencies(n)
    \/ \E n \in IRInputs : GetConstants(n)
    \/ \E n \in IRInputs, P \in ParameterLists : ToTemplate(n, P)
    \/ \E same \in BOOLEAN : PartialApply(same)
    \/ FromCalcset
    \/ \E x \in ItemInputs \cup EmptyItems : ItemToDict(x)
    \/ ItemDecode
    \/ IfDecode
    \/ IfRowDecode
    \/ \E x \in IfInputs \cup {NestedIf} : FromIf(x)
    \/ \E c \in RunCalcSets, inputs \in RunInputs, ov \in BOOLEAN : RunCalcset(c, inputs, ov)
    \/ RunCalcsetOfFile

Spec == Init /\ [][Next]_vars

(***************************************************************************)
(* Properties of the session.                                              *)
(***************************************************************************)
\* what each item of cs encodes to on its own, in insertion order
ItemDicts == [i \in 1..Len(items) |-> Item_to_dict(items[i]).val]
\* the item dictionaries a to_dict result carries
ItemsOf(d) == d.d["items"].l
WireType(x) == x.d["type"].s
GroupRank(x) ==
    CASE WireType(x) = "variable" -> 1
      [] WireType(x) = "calculation" -> 2
      [] WireType(x) = "filter" -> 3

\* out is src regrouped by kind without disturbing the order inside a kind
StableGrouping(src, out) ==
    /\ Len(out) = Len(src)
    /\ \A i, j \in 1..Len(out) : i < j => GroupRank(out[i]) <= GroupRank(out[j])
    /\ \E p \in Permutations(1..Len(src)) :
          /\ \A k \in 1..Len(out) : out[k] = src[p[k]]
          /\ \A k, n \in 1..Len(out) :
                 (k < n /\ GroupRank(out[k]) = GroupRank(out[n])) => p[k] < p[n]

\* C1: to_dict(sort_items=True)["items"] lists the variables, then the
\* calculations, then the filters; inside each group the items keep the order
\* they have in CalcSet.items, and the list is a permutation of the unsorted
\* item dictionaries.
C1_SortedItemsAreGroupedStably ==
    (op = "to_dict" /\ arg = Bool(TRUE)) =>
        /\ IsOk(res)
        /\ StableGrouping(ItemDicts, ItemsOf(res.val))

\* a sorted encoding that had to move an item and that holds two different
\* items of one group
C1_Witness ==
    /\ op = "to_dict" /\ arg = Bool(TRUE) /\ IsOk(res)
    /\ ItemsOf(res.val) /= ItemDicts
    /\ \E i, j \in 1..Len(items) :
          /\ i < j
          /\ GroupRank(ItemsOf(res.val)[i]) = GroupRank(ItemsOf(res.val)[j])
          /\ ItemsOf(res.val)[i] /= ItemsOf(res.val)[j]

PerItemDicts(calcset) == [i \in 1..Len(calcset.items) |-> Item_to_dict(calcset.items[i])]

\* C4: decompiling cs yields source text, and executing that text builds a
\* CalcSet whose per-item to_dict() list equals that of cs.
C4_DecompileThenExecIsIdentity ==
    /\ op = "decompile" => IsOk(res)
    /\ op = "exec_snippet" => (IsOk(res) /\ PerItemDicts(res.val) = PerItemDicts(cs))

\* the text of s with every bracketed name blanked
RECURSIVE shape_of(_, _)
shape_of(chars, inside) ==
    IF chars = <<>> THEN <<>>
    ELSE IF Head(chars) = "[" THEN <<"[">> \o shape_of(Tail(chars), TRUE)
    ELSE IF Head(chars) = "]" THEN <<"]">> \o shape_of(Tail(chars), FALSE)
    ELSE IF inside THEN shape_of(Tail(chars), TRUE)
    ELSE <<Head(chars)>> \o shape_of(Tail(chars), FALSE)

\* two items of one class whose expressions differ only in the names referenced
ShapeTwins(a, b) ==
    /\ a.cls = b.cls
    /\ a.children /= b.children
    /\ isinstance_list(a.children) /\ isinstance_list(b.children)
    /\ Len(a.children.l) = Len(b.children.l)
    /\ \A i \in 1..Len(a.children.l) :
          /\ isinstance_str(a.children.l[i]) /\ isinstance_str(b.children.l[i])
          /\ shape_of(Chars(a.children.l[i].s), FALSE)
                 = shape_of(Chars(b.children.l[i].s), FALSE)

\* C5: when cs holds two items of identical expression shape, the emitted
\* source has a line that iterates over a per-instance table.
C5_DuplicatesShareOneTemplate ==
    (op = "decompile" /\ \E i, j \in 1..Len(items) : ShapeTwins(items[i], items[j])) =>
        /\ IsOk(res)
        /\ \E n \in 1..Len(res.val) : res.val[n].line = "for name, inputs, consts in"

\* C6: CalcSet.from_dict accepts the item dictionaries in any order of kinds,
\* and the CalcSet it returns has one item per dictionary, item i built from
\* data["items"][i]: nothing is sorted on read.
C6_ReadKeepsStoredOrder ==
    /\ (op = "from_dict" /\ arg \in EncodedDicts) => IsOk(res)
    /\ (op = "from_dict" /\ IsOk(res)) =>
          /\ Len(res.val.items) = Len(ItemsOf(arg))
          /\ \A i \in 1..Len(ItemsOf(arg)) :
                 Ok(res.val.items[i]) = CalcSet_item_from_dict(ItemsOf(arg)[i])

\* a decoded dictionary that stores a filter ahead of a variable
C6_Witness ==
    /\ op = "from_dict" /\ IsOk(res)
    /\ \E i, j \in 1..Len(ItemsOf(arg)) :
          /\ i < j
          /\ ItemsOf(arg)[i].d["type"] = Str("filter")
          /\ ItemsOf(arg)[j].d["type"] = Str("variable")
          /\ res.val.items[i].cls = "Filter"
          /\ res.val.items[j].cls = "Variable"

\* C7: to_dict(sort_items=False)["items"] is the list of each item's
\* to_dict() in the insertion order of CalcSet.items.
C7_UnsortedKeepsInsertionOrder ==
    (op = "to_dict" /\ arg = Bool(FALSE)) =>
        /\ IsOk(res)
        /\ ItemsOf(res.val) = ItemDicts

\* an unsorted encoding whose kinds are out of the sorted order
C7_Witness ==
    /\ op = "to_dict" /\ arg = Bool(FALSE) /\ IsOk(res)
    /\ \E i, j \in 1..Len(items) :
          i < j /\ GroupRank(ItemsOf(res.val)[i]) > GroupRank(ItemsOf(res.val)[j])

\* the elements of a sequence-valued attribute as they are encoded before
\* any guard is applied
Unguarded(seq) == to_dict(seq, FALSE).val.l

\* out is enc with an empty string put at exactly the ends that are not text
PaddedFrom(enc, out) ==
    \E pre, post \in {<<>>, <<Str("")>>} :
        /\ out = pre \o enc \o post
        /\ (pre /= <<>>) <=> ~isinstance_str(enc[1])
        /\ (post /= <<>>) <=> ~isinstance_str(enc[Len(enc)])

TextBounded(out) ==
    /\ out /= <<>>
    /\ isinstance_str(out[1])
    /\ isinstance_str(out[Len(out)])

\* every statement, result and otherwise list beneath x that comes from a
\* non-empty sequence is bounded by text; a list without elements is the
\* empty result of a row handed in already serialized (core.py 291-292),
\* which no sequence was encoded into
RECURSIVE AllTextBounded(_)
AllTextBounded(x) ==
    CASE x.t = "dict" ->
             /\ \A k \in DOMAIN x.d \cap {"statement", "result", "otherwise"} :
                    x.d[k].d["children"].l /= <<>> => TextBounded(x.d[k].d["children"].l)
             /\ \A k \in DOMAIN x.d : AllTextBounded(x.d[k])
      [] x.t = "list" -> \A i \in 1..Len(x.l) : AllTextBounded(x.l[i])
      [] OTHER -> TRUE

\* C8: in the dictionaries of Item.to_dict, IfRow.to_dict and If.to_dict the
\* children of a statement, a result and an otherwise begin and end with
\* text; a sentinel stands at an end exactly when the element there is not
\* text, and the elements keep their order between the sentinels.
C8_PaddingOnEncode ==
    /\ (op = "to_dict" /\ arg = Bool(FALSE) /\ IsOk(res)) =>
          /\ AllTextBounded(res.val)
          /\ \A i \in 1..Len(items) :
                 PaddedFrom(Unguarded(items[i].children),
                            ItemsOf(res.val)[i].d["equation"].d["statement"].d["children"].l)
    /\ (op = "If.to_dict" /\ IsOk(res)) =>
          /\ AllTextBounded(res.val)
          /\ PaddedFrom(Unguarded(arg.otherwise), res.val.d["otherwise"].d["children"].l)
    /\ (op = "IfRow.to_dict" /\ IsOk(res)) =>
          /\ AllTextBounded(res.val)
          /\ PaddedFrom(Unguarded(arg.value), res.val.d["result"].d["children"].l)

\* a row whose value starts with a conditional and ends with text: one
\* sentinel, in front
C8_Witness ==
    /\ op = "IfRow.to_dict" /\ IsOk(res)
    /\ arg.value = List(<<TreeIf, Str("'C'")>>)
    /\ Len(res.val.d["result"].d["children"].l) = 3
    /\ res.val.d["result"].d["children"].l[1] = Str("")
    /\ res.val.d["result"].d["children"].l[3] = Str("'C'")

TagIsNot(d, ty) == "type" \in DOMAIN d.d /\ d.d["type"] /= Str(ty)

\* C9: CalcSet.from_dict, If.from_dict and IfRow.from_dict raise ValueError
\* for a dictionary whose type tag is not theirs, whatever else it holds or
\* lacks, and return no object.
C9_TypeTagCheckedFirst ==
    /\ (op = "from_dict" /\ TagIsNot(arg, "calculation-set")) => res = Raise("ValueError")
    /\ (op = "If.from_dict" /\ TagIsNot(arg, "if")) => res = Raise("ValueError")
    /\ (op = "IfRow.from_dict" /\ TagIsNot(arg, "if_row")) => res = Raise("ValueError")

\* a dictionary with a foreign tag and nothing else, turned down
C9_Witness ==
    /\ op = "from_dict"
    /\ arg = only_type("not-calcset")
    /\ res = Raise("ValueError")

\* C10: CalcSet.from_dict raises for every item dictionary whose type is
\* not "variable", "filter" or "calculation".
C10_ForeignItemTypeRaises ==
    (/\ op = "from_dict"
     /\ ~TagIsNot(arg, "calculation-set")
     /\ \E i \in 1..Len(ItemsOf(arg)) :
            ItemsOf(arg)[i].d["type"].s \notin {"variable", "filter", "calculation"})
        => ~IsOk(res)

\* the item dictionaries ahead of position i all decode
DecodesUpTo(ds, i) == \A j \in 1..(i - 1) : IsOk(CalcSet_item_from_dict(ds[j]))

\* a calculation item whose calculation_type is missing or neither tag
UntypedCalculation(x) ==
    /\ isinstance_dict(x)
    /\ dict_get(x, "type", NoneVal) = Str("calculation")
    /\ dict_get(x, "calculation_type", NoneVal) \notin {Str("number"), Str("string")}

\* C11: CalcSet.from_dict raises ValueError at an item of type "calculation"
\* whose calculation_type is absent or is neither "number" nor "string", and
\* returns no CalcSet: the item is not defaulted to a Number or a Category.
C11_UnknownCalculationTypeRaises ==
    (/\ op = "from_dict"
     /\ ~TagIsNot(arg, "calculation-set")
     /\ \E i \in 1..Len(ItemsOf(arg)) :
            UntypedCalculation(ItemsOf(arg)[i]) /\ DecodesUpTo(ItemsOf(arg), i))
        => res = Raise("ValueError")

\* a calculation that is complete but for its calculation_type "boolean",
\* turned down
C11_Witness ==
    /\ op = "from_dict"
    /\ ~TagIsNot(arg, "calculation-set")
    /\ res = Raise("ValueError")
    /\ \E i \in 1..Len(ItemsOf(arg)) :
          /\ UntypedCalculation(ItemsOf(arg)[i])
          /\ dict_get(ItemsOf(arg)[i], "calculation_type", NoneVal) = Str("boolean")
          /\ IsOk(Item_from_dict("Number", ItemsOf(arg)[i]))

\* the tags a dictionary may carry as the value of key k, and as an element
\* of the list under key k
ValueTags(k) ==
    CASE k \in {"statement", "test", "result", "otherwise"} -> {"list"}
      [] k = "equation" -> {"equation"}
      [] OTHER -> {}
ElementTags(k) ==
    CASE k = "items" -> {"variable", "filter", "calculation"}
      [] k = "rows" -> {"if_row"}
      [] k = "children" -> {"if"}
      [] OTHER -> {}

\* x is a dictionary tagged with one of tags, and every dictionary beneath
\* it carries the tag its place demands
RECURSIVE Tagged(_, _)
Tagged(x, tags) ==
    /\ isinstance_dict(x)
    /\ "type" \in DOMAIN x.d
    /\ isinstance_str(x.d["type"])
    /\ x.d["type"].s \in tags
    /\ \A k \in DOMAIN x.d :
           CASE isinstance_dict(x.d[k]) -> Tagged(x.d[k], ValueTags(k))
             [] isinstance_list(x.d[k]) ->
                    \A i \in 1..Len(x.d[k].l) :
                        isinstance_dict(x.d[k].l[i]) => Tagged(x.d[k].l[i], ElementTags(k))
             [] OTHER -> TRUE

\* C12: from_dict fails whenever a type tag is wrong or missing at any level
\* of the dictionary it is given: no such dictionary is turned into an object.
C12_MistaggedNodeRaises ==
    /\ (op = "from_dict" /\ ~Tagged(arg, {"calculation-set"})) => ~IsOk(res)
    /\ (op = "If.from_dict" /\ ~Tagged(arg, {"if"})) => ~IsOk(res)
    /\ (op = "IfRow.from_dict" /\ ~Tagged(arg, {"if_row"})) => ~IsOk(res)

\* "%lfcalc-1.0" and a line feed, byte by byte; "-1.0" alone
LfcalcMagic == <<37, 108, 102, 99, 97, 108, 99, 45, 49, 46, 48, 10>>
VersionSuffix == <<45, 49, 46, 48>>
ZeroBytes(n) == [i \in 1..n |-> Byte(0)]
BytesOf(ns) == [i \in 1..Len(ns) |-> Byte(ns[i])]

\* the payload to_lfcalc(sort_items=s) writes for cs
PayloadOf(s) == zlib_compress(encode(json_text(CalcSet_to_dict(cs, s).val)))

\* C13 as stated: the 32 bytes in front of the payload are a magic that ends
\* in "-1.0" followed by 16 zero bytes.
C13_HeaderEndsInSixteenZeroBytes ==
    (op = "to_lfcalc" /\ IsOk(res)) =>
        /\ Len(file) >= 32
        /\ SubSeq(file, 33, Len(file)) = PayloadOf(arg.b)
        /\ SubSeq(file, 13, 16) = BytesOf(VersionSuffix)
        /\ SubSeq(file, 17, 32) = ZeroBytes(16)

\* C13: every output of to_lfcalc is the 32-byte header, the 12 bytes
\* "%lfcalc-1.0\n" followed by 20 zero bytes, the same for every CalcSet,
\* immediately followed by the compressed payload, which starts at offset 32;
\* read_lfcalc decodes what lies behind the first 32 bytes.
C13_ContainerLayout ==
    /\ (op = "to_lfcalc" /\ IsOk(res)) =>
          /\ Len(file) > 32
          /\ SubSeq(file, 1, 12) = BytesOf(LfcalcMagic)
          /\ SubSeq(file, 8, 11) = BytesOf(VersionSuffix)
          /\ SubSeq(file, 13, 32) = ZeroBytes(20)
          /\ SubSeq(file, 33, Len(file)) = PayloadOf(arg.b)
          /\ file[33] = ZlibMagic
    /\ op = "read_lfcalc" =>
          /\ IsOk(res)
          /\ res = CalcSet_from_dict(CalcSet_to_dict(cs, arg.b).val)

\* a file written for a calculation set of two items or more
C13_Witness ==
    /\ op = "to_lfcalc" /\ IsOk(res)
    /\ Len(items) >= 2
    /\ Len(file) > 32
    /\ file[32] = Byte(0)
    /\ file[33] = ZlibMagic

(***************************************************************************)
(* The analyses of the IR.                                                 *)
(***************************************************************************)
\* the text fragments beneath an IR node, as characters
RECURSIVE TextsBeneath(_)
TextsBeneath(n) ==
    IF n.t = "IRIf"
    THEN UNION { TextsBeneath(row.condition) \cup TextsBeneath(row.result) :
                 row \in Range(n.rows) } \cup TextsBeneath(n.otherwise)
    ELSE UNION { IF child.t = "IRIf" THEN TextsBeneath(child) ELSE {str_chars(child)} :
                 child \in Range(n.children) }

\* the names N for which "[N]" stands in the text c
BracketNames(c) ==
    { SubSeq(c, i + 1, j - 1) :
        <<i, j>> \in { p \in (DOMAIN c) \X (DOMAIN c) :
                         /\ p[1] + 1 < p[2]
                         /\ c[p[1]] = "[" /\ c[p[2]] = "]"
                         /\ \A k \in (p[1] + 1)..(p[2] - 1) : c[k] \notin {"[", "]"} } }

NamesBeneath(n) == { Text(m) : m \in UNION { BracketNames(c) : c \in TextsBeneath(n) } }

\* C14: get_dependencies on an IRExpression or IRIf returns exactly the set
\* of names written as [Name] in a text fragment beneath the node (row
\* condition, row result, otherwise branch, nested conditional) and nothing
\* else: {Au, Ag} for "[Au] * 2 + [Ag]", the empty set for a node without a
\* bracket reference.
C14_DependenciesAreTheBracketNames ==
    op = "get_dependencies" =>
        /\ res = Ok(SetOf(NamesBeneath(arg)))
        /\ arg = IRExpression(<<Str("[Au] * 2 + [Ag]")>>) =>
               res.val.e = {Text(<<"A", "u">>), Text(<<"A", "g">>)}
        /\ (\A c \in TextsBeneath(arg) : "[" \notin Range(c)) => res.val.e = {}

\* a conditional whose names come from a condition, from a conditional held
\* in a row result and from a conditional held in the otherwise branch
C14_Witness ==
    /\ op = "get_dependencies"
    /\ arg = NestedIRIf
    /\ res.val.e = {Text(<<"x">>), Text(<<"z">>), Text(<<"A", "u">>), Text(<<"y">>)}

\* the texts that stand between a quote and the next quote of its kind in c,
\* the opening quote being one that no earlier literal has closed
QuotedLiterals(c) ==
    { SubSeq(c, p[1] + 1, p[2] - 1) :
        p \in { p \in (DOMAIN c) \X (DOMAIN c) :
                  /\ p[1] < p[2]
                  /\ c[p[1]] \in {"\"", "'"} /\ c[p[2]] = c[p[1]]
                  /\ \A k \in (p[1] + 1)..(p[2] - 1) : c[k] /= c[p[1]]
                  /\ Cardinality({ k \in 1..(p[1] - 1) : c[k] = c[p[1]] }) % 2 = 0 } }

\* digits, or digits, a point and digits
IsNumeral(w) ==
    /\ w /= <<>>
    /\ w[1] \in Digits /\ w[Len(w)] \in Digits
    /\ \A k \in DOMAIN w : w[k] \in Digits \cup {"."}
    /\ Cardinality({ k \in DOMAIN w : w[k] = "." }) <= 1

\* the numerals that stand in c on their own, as they are written
NumericLiterals(c) ==
    { SubSeq(c, p[1], p[2]) :
        p \in { p \in (DOMAIN c) \X (DOMAIN c) :
                  /\ p[1] <= p[2]
                  /\ IsNumeral(SubSeq(c, p[1], p[2]))
                  /\ p[1] = 1 \/ c[p[1] - 1] \notin WordChars \cup {"."}
                  /\ p[2] = Len(c) \/ c[p[2] + 1] \notin WordChars \cup {"."} } }

ConstantsBeneath(n) ==
    { Text(m) : m \in UNION { QuotedLiterals(c) \cup NumericLiterals(c) : c \in TextsBeneath(n) } }

\* C15: get_constants on an IRExpression or IRIf returns exactly the quoted
\* string literals (the text between matching quotes) and the bare numeric
\* literals, each as written, of the text fragments beneath the node, nested
\* conditionals included: "2" and "3.5" for "[Au] * 2 + 3.5".
C15_ConstantsAreTheLiteralsAsWritten ==
    op = "get_constants" =>
        /\ res = Ok(SetOf(ConstantsBeneath(arg)))
        /\ arg = IRExpression(<<Str("[Au] * 2 + 3.5")>>) =>
               res.val.e = {Text(<<"2">>), Text(<<"3", ".", "5">>)}

\* no parameter's text is a substring of a later parameter's text
NoneInsideLater(P) ==
    \A i, j \in DOMAIN P : i < j => ~str_contains(str_chars(P[j]), str_chars(P[i]))

\* A text in which a placeholder is one mark, set apart from the characters
\* around it: the mark of the parameter that enumerate numbers i
Mark(i) == <<"{v0}", "{v1}", "{v2}">>[i + 1]
Marks == { Mark(i) : i \in 0..2 }

\* every occurrence of the parameters in c replaced by their marks, in list
\* order, from the i-th parameter on
RECURSIVE Marked(_, _, _)
Marked(c, P, i) ==
    IF i > Len(P) THEN c
    ELSE Marked(str_replace(c, str_chars(P[i]), <<Mark(i - 1)>>, 1), P, i + 1)

\* the marks spelled out by what V gives for them
RECURSIVE Spelled(_, _)
Spelled(c, V) ==
    IF c = <<>> THEN <<>>
    ELSE (IF Head(c) \in Marks
          THEN V[CHOOSE i \in 1..3 : Mark(i - 1) = Head(c)]
          ELSE <<Head(c)>>) \o Spelled(Tail(c), V)

Placeholders == [i \in 1..3 |-> placeholder(i - 1)]

\* the IR node n with every text fragment c replaced by f(c)
RECURSIVE MapTexts(_, _)
MapTexts(n, f) ==
    IF n.t = "IRIf"
    THEN IRIf([k \in DOMAIN n.rows |->
                   IRIfRow(MapTexts(n.rows[k].condition, f), MapTexts(n.rows[k].result, f))],
              MapTexts(n.otherwise, f))
    ELSE IRExpression([k \in DOMAIN n.children |->
                          IF n.children[k].t = "IRIf" THEN MapTexts(n.children[k], f)
                          ELSE Text(f[str_chars(n.children[k])])])

Templated(n, P) ==
    MapTexts(n, [c \in TextsBeneath(n) |-> Spelled(Marked(c, P, 1), Placeholders)])

\* C16: to_template(parameters) returns a node of the same tree shape in
\* which every occurrence of parameters[i] in every text fragment is
\* replaced by the placeholder "{v<i>}" of that parameter's index, provided
\* no parameter's text is a substring of a later parameter's text.
C16_TemplateReplacesEveryParameter ==
    (op = "to_template" /\ NoneInsideLater(arg.parameters)) =>
        res = Ok(Templated(arg.self, arg.parameters))

\* the template of n with the placeholder of every parameter spelled out by
\* the text V gives for it
Instantiated(n, P, V) ==
    MapTexts(n, [c \in TextsBeneath(n) |->
                    Spelled(Marked(c, P, 1), [i \in 1..3 |-> IF i \in DOMAIN V
                                                              THEN str_chars(V[i]) ELSE <<>>])])

\* C17: partial_apply is the inverse of to_template: for every node n,
\* nested conditionals included, and every parameter list P in which no
\* parameter is a substring of a later one, partial_apply on
\* to_template(n, P) with parameters P and values V replaces each
\* placeholder "{v<i>}" by str(V[i]) in every text fragment, and V = P
\* gives n back.
C17_PartialApplyInstantiatesTheTemplate ==
    (op = "partial_apply" /\ NoneInsideLater(arg.parameters)) =>
        /\ res = Ok(Instantiated(arg.self, arg.parameters, arg.values))
        /\ arg.values = arg.parameters =>
               res = Ok(MapTexts(arg.self, [c \in TextsBeneath(arg.self) |-> c]))

(***************************************************************************)
(* The conversion to the IR.                                               *)
(***************************************************************************)
\* ir has the children of the expression, one for one and in order: a text
\* fragment as it is, an If as the IRIf of its rows and its otherwise branch
RECURSIVE CopyOfExpression(_, _)
RECURSIVE CopyOfIf(_, _)
CopyOfExpression(ir, expression) ==
    /\ ir.t = "IRExpression"
    /\ isinstance_list(expression)
    /\ Len(ir.children) = Len(expression.l)
    /\ \A k \in DOMAIN expression.l :
          IF expression.l[k].t = "If"
          THEN CopyOfIf(ir.children[k], expression.l[k])
          ELSE ir.children[k] = expression.l[k]

CopyOfIf(ir, if_obj) ==
    /\ ir.t = "IRIf"
    /\ isinstance_list(if_obj.rows)
    /\ Len(ir.rows) = Len(if_obj.rows.l)
    /\ \A k \in DOMAIN if_obj.rows.l :
          /\ if_obj.rows.l[k].t = "IfRow"
          /\ CopyOfExpression(ir.rows[k].condition, if_obj.rows.l[k].condition)
          /\ CopyOfExpression(ir.rows[k].result, if_obj.rows.l[k].value)
    /\ CopyOfExpression(ir.otherwise, if_obj.otherwise)

\* an expression given as a list of text fragments and of conditionals
\* whose rows are IfRow objects of such lists
RECURSIVE ListOfChildren(_)
ListOfChildren(expression) ==
    /\ isinstance_list(expression)
    /\ \A k \in DOMAIN expression.l :
          \/ isinstance_str(expression.l[k])
          \/ /\ expression.l[k].t = "If"
             /\ isinstance_list(expression.l[k].rows)
             /\ \A r \in DOMAIN expression.l[k].rows.l :
                   /\ expression.l[k].rows.l[r].t = "IfRow"
                   /\ ListOfChildren(expression.l[k].rows.l[r].condition)
                   /\ ListOfChildren(expression.l[k].rows.l[r].value)
             /\ ListOfChildren(expression.l[k].otherwise)

\* C18: IR conversion is a structural copy: for every Item, IRItem.from_item
\* yields an IRItem with the item's name whose expression has the item's
\* expression children one for one and in order, every text fragment
\* unchanged and every If replaced by an IRIf with the same rows in the
\* same order (condition and result converted recursively) and the
\* converted otherwise branch; IRCalcSet.from_calcset keeps item count and
\* order.
C18_ConversionIsAStructuralCopy ==
    /\ (op = "from_if" /\ ListOfChildren(List(<<arg>>))) =>
           (IsOk(res) /\ CopyOfIf(res.val, arg))
    /\ (op = "from_calcset" /\ \A k \in DOMAIN items : ListOfChildren(items[k].children)) =>
           /\ IsOk(res)
           /\ Len(res.val.items) = Len(items)
           /\ \A k \in DOMAIN items :
                 /\ res.val.items[k].name = items[k].name
                 /\ CopyOfExpression(res.val.items[k].expression, items[k].children)

(***************************************************************************)
(* Wire tags.                                                              *)
(***************************************************************************)
\* the item dictionary d carries the tags of the class cls
CarriesTagsOf(d, cls) ==
    CASE cls = "Variable" ->
             d.d["type"] = Str("variable") /\ "calculation_type" \notin DOMAIN d.d
      [] cls = "Filter" ->
             d.d["type"] = Str("filter") /\ "calculation_type" \notin DOMAIN d.d
      [] cls = "Number" ->
             /\ d.d["type"] = Str("calculation")
             /\ "calculation_type" \in DOMAIN d.d
             /\ d.d["calculation_type"] = Str("number")
      [] cls = "Category" ->
             /\ d.d["type"] = Str("calculation")
             /\ "calculation_type" \in DOMAIN d.d
             /\ d.d["calculation_type"] = Str("string")
      [] OTHER -> FALSE

\* the class that the tags of the item dictionary d name
ClassTagged(d) ==
    CASE d.d["type"] = Str("variable") -> "Variable"
      [] d.d["type"] = Str("filter") -> "Filter"
      [] d.d["type"] = Str("calculation") /\ d.d["calculation_type"] = Str("number") -> "Number"
      [] d.d["type"] = Str("calculation") /\ d.d["calculation_type"] = Str("string") -> "Category"

ItemTypes == {Str("variable"), Str("filter"), Str("calculation")}

\* C19: each Item kind keeps its wire tags through to_dict and from_dict:
\* Variable is "variable", Filter "filter", Number "calculation" with
\* calculation_type "number", Category "calculation" with calculation_type
\* "string"; variable and filter dictionaries carry no calculation_type key;
\* CalcSet.from_dict rebuilds every item as the class that matches its tags.
C19_ItemKindsKeepTheirWireTags ==
    /\ (op = "to_dict" /\ IsOk(res)) =>
           /\ Len(ItemsOf(res.val)) = Len(items)
           /\ arg = Bool(FALSE) =>
                  \A i \in DOMAIN items : CarriesTagsOf(ItemsOf(res.val)[i], items[i].cls)
           /\ \A k \in DOMAIN ItemsOf(res.val) :
                  \E i \in DOMAIN items :
                      /\ ItemsOf(res.val)[k].d["name"] = items[i].name
                      /\ CarriesTagsOf(ItemsOf(res.val)[k], items[i].cls)
    /\ (op = "from_dict" /\ IsOk(res)) =>
           /\ Len(res.val.items) = Len(ItemsOf(arg))
           /\ \A i \in DOMAIN ItemsOf(arg) :
                  ItemsOf(arg)[i].d["type"] \in ItemTypes =>
                      /\ res.val.items[i].t = "Item"
                      /\ res.val.items[i].cls = ClassTagged(ItemsOf(arg)[i])
                      /\ res.val.items[i].name = ItemsOf(arg)[i].d["name"]

\* a dictionary of a Number, a Category and a Variable decoded into these
\* three classes, the two calculations told apart by their calculation_type
C19_Witness ==
    /\ op = "from_dict"
    /\ IsOk(res)
    /\ { ItemsOf(arg)[i].d["type"] : i \in DOMAIN ItemsOf(arg) } =
           {Str("variable"), Str("calculation")}
    /\ {"Number", "Category", "Variable"} \subseteq
           { res.val.items[i].cls : i \in DOMAIN res.val.items }
    /\ \A i \in DOMAIN res.val.items :
          CarriesTagsOf(ItemsOf(arg)[i], res.val.items[i].cls)

(***************************************************************************)
(* Objects encoded and decoded on their own.                               *)
(***************************************************************************)
\* a list that begins and ends with a text fragment, and so does every
\* sequence of the conditionals it holds
RECURSIVE BoundedByText(_)
BoundedByText(x) ==
    /\ isinstance_list(x)
    /\ x.l /= <<>>
    /\ isinstance_str(x.l[1]) /\ isinstance_str(x.l[Len(x.l)])
    /\ \A k \in DOMAIN x.l :
          \/ isinstance_str(x.l[k])
          \/ /\ x.l[k].t = "If"
             /\ isinstance_list(x.l[k].rows)
             /\ \A r \in DOMAIN x.l[k].rows.l :
                   /\ x.l[k].rows.l[r].t = "IfRow"
                   /\ BoundedByText(x.l[k].rows.l[r].condition)
                   /\ BoundedByText(x.l[k].rows.l[r].value)
             /\ BoundedByText(x.l[k].otherwise)

\* C20: for an Item, IfRow or If whose sequences (children, condition,
\* value, otherwise) begin and end with text fragments,
\* from_dict(to_dict(x)) has the same name and the same condition,
\* value/children and otherwise sequences element for element, and every
\* row of a decoded If is an IfRow object.
C20_ObjectRoundTrip ==
    /\ (op = "Item.decode" /\ BoundedByText(arg.children)) =>
           /\ IsOk(res)
           /\ res.val.name = arg.name
           /\ res.val.children = arg.children
    /\ (op = "IfRow.decode" /\ BoundedByText(arg.condition) /\ BoundedByText(arg.value)) =>
           /\ IsOk(res)
           /\ res.val.condition = arg.condition
           /\ res.val.value = arg.value
    /\ (op = "If.decode" /\ BoundedByText(List(<<Str(""), arg, Str("")>>))) =>
           /\ IsOk(res)
           /\ res.val.otherwise = arg.otherwise
           /\ res.val.rows = arg.rows
    /\ (op = "If.decode" /\ IsOk(res)) =>
           /\ isinstance_list(res.val.rows)
           /\ \A r \in DOMAIN res.val.rows.l : res.val.rows.l[r].t = "IfRow"

\* an item decoded whose children hold a conditional between two texts,
\* the conditional holding conditionals of its own
C20_Witness ==
    /\ op = "Item.decode"
    /\ IsOk(res)
    /\ BoundedByText(arg.children)
    /\ res.val.children = List(<<Str("1.0"), BoundedIf, Str("2.0")>>)

(***************************************************************************)
(* Addition.                                                               *)
(***************************************************************************)
\* C21: for CalcSets a and b, a + b is a new CalcSet whose items are a's
\* items followed by b's items in their order, of length len(a.items) +
\* len(b.items); neither a.items nor b.items is changed; adding a value
\* that is no CalcSet yields NotImplemented and no CalcSet.
C21_AdditionConcatenates ==
    op = "plus" =>
        /\ items = arg.self.items
        /\ arg.other_after = arg.other
        /\ IF arg.other.t = "CalcSet"
           THEN /\ IsOk(res) /\ res.val.t = "CalcSet"
                /\ Len(res.val.items) = Len(arg.self.items) + Len(arg.other.items)
                /\ \A i \in DOMAIN arg.self.items : res.val.items[i] = arg.self.items[i]
                /\ \A i \in DOMAIN arg.other.items :
                      res.val.items[Len(arg.self.items) + i] = arg.other.items[i]
           ELSE res = Ok([t |-> "NotImplemented"])

\* the sum of tests/test_core.py, test_calcset_add_multiple: one item and
\* then two, the variable last
C21_Witness ==
    /\ op = "plus"
    /\ Len(items) = 1
    /\ arg.other.t = "CalcSet"
    /\ Len(arg.other.items) = 2
    /\ Len(res.val.items) = 3
    /\ res.val.items[3].name = Str("v")
    /\ res.val.items[1] /= res.val.items[2]

(***************************************************************************)
(* Items without a partner in the emitted source.                          *)
(***************************************************************************)
\* item i of cs has no other item of its shape beside it
Lone(i) ==
    \A j \in DOMAIN items \ {i} :
        items[j] /= items[i] /\ ~ShapeTwins(items[i], items[j])

\* the line appends a declaration of the item it
Declares(ln, it) ==
    /\ ln.line = "items.append("
    /\ ln.expr.class = it.cls
    /\ ln.expr.name.s = it.name.s

\* C22: an item that has no shape-compatible partner in the CalcSet is
\* emitted as one direct declaration, and the emitted source has no
\* iteration construct for it.
C22_LoneItemsAreDeclaredDirectly ==
    op = "decompile" =>
        \A i \in DOMAIN items :
            Lone(i) =>
                /\ IsOk(res)
                /\ Cardinality({ n \in DOMAIN res.val : Declares(res.val[n], items[i]) }) = 1
                /\ \A n \in DOMAIN res.val : res.val[n].line /= "for name, inputs, consts in"

(***************************************************************************)
(* Evaluation.                                                             *)
(***************************************************************************)
Ran == op \in {"run_calcset", "run_calcset_of_file"} /\ IsOk(res)

\* the names and values an expression sees once every item has its value:
\* the inputs, a variable without input being None, and over them the
\* results
FinalContext ==
    LET inputs == IF op = "run_calcset" THEN arg.inputs ELSE arg.first.inputs
        given == IF inputs = NoneVal THEN <<>> ELSE inputs.d
        names == { str_chars(arg.sorted.items[i].name) : i \in DOMAIN arg.sorted.items }
    IN  [k \in DOMAIN given \cup names |->
            IF k \in DOMAIN res.val.d THEN res.val.d[k]
            ELSE IF k \in DOMAIN given THEN given[k] ELSE NoneVal]

\* a conditional whose rows are IfRow objects with a condition and a value
\* to take the first element of
HasRowObjects(x) ==
    /\ x.t = "If" /\ x.rows.t = "list" /\ x.otherwise.t = "list"
    /\ \A i \in DOMAIN x.rows.l :
          /\ x.rows.l[i].t = "IfRow"
          /\ x.rows.l[i].condition.t = "list" /\ x.rows.l[i].condition.l /= <<>>
          /\ x.rows.l[i].value.t = "list" /\ x.rows.l[i].value.l /= <<>>

\* the rows of a conditional whose condition is truthy
TruthyRows(x, context) ==
    { i \in DOMAIN x.rows.l : bool(eval_expr(x.rows.l[i].condition.l[1], context).val) }

\* the items of the evaluated calculation set whose expression is a
\* conditional
ConditionalItems ==
    { it \in Range(arg.sorted.items) :
        /\ item_type(it.cls) /= Str("variable")
        /\ it.children.t = "list" /\ it.children.l /= <<>>
        /\ HasRowObjects(it.children.l[1]) }

\* C23: first match wins: the value of a conditional is the value of the
\* first row, in declared order, whose condition is truthy, whatever the
\* rows behind it say, and the otherwise branch exactly when no condition
\* is truthy.
C23_FirstMatchWins ==
    Ran =>
      \A it \in ConditionalItems :
         LET x == it.children.l[1]
             truthy_rows == TruthyRows(x, FinalContext)
             winner == CHOOSE i \in truthy_rows : \A j \in truthy_rows : i <= j
             value == res.val.d[str_chars(it.name)]
         IN  IF truthy_rows /= {}
             THEN value = eval_expr(x.rows.l[winner].value.l[1], FinalContext).val
             ELSE value = (IF x.otherwise.l = <<>> THEN NoneVal
                           ELSE eval_expr(x.otherwise.l[1], FinalContext).val)

\* a conditional has been evaluated two of whose conditions were truthy,
\* and the rows would have given different values
C23_Witness ==
    /\ Ran
    /\ \E it \in ConditionalItems :
          LET x == it.children.l[1]
          IN  \E i, j \in TruthyRows(x, FinalContext) :
                 /\ i < j
                 /\ eval_expr(x.rows.l[i].value.l[1], FinalContext).val
                      /= eval_expr(x.rows.l[j].value.l[1], FinalContext).val
                 /\ res.val.d[str_chars(it.name)] /= NoneVal

\* C24: evaluation after a file round trip is unchanged: run_calcset on
\* read_lfcalc(to_lfcalc(cs)) returns for every item the value run_calcset
\* returns on cs, wherever that run returned, the padding of the encoding
\* being inert.
C24_RoundTripKeepsTheValues ==
    op = "run_calcset_of_file" /\ IsOk(arg.first_result) => res = arg.first_result

\* what eval does with the expression text of an item, the values of all
\* items known; items without an expression text come out Ok
Evaluated(it, context) ==
    IF /\ item_type(it.cls) /= Str("variable")
       /\ it.children.t = "list" /\ it.children.l /= <<>>
       /\ isinstance_str(it.children.l[1])
       /\ ~str_is_blank(str_chars(it.children.l[1]))
    THEN eval(tokens(str_chars(it.children.l[1]), 1), context)
    ELSE Ok(NoneVal)

\* the names of the items of a calculation set that are no variables
Computed(calcset) ==
    { str_chars(calcset.items[i].name) :
        i \in { i \in DOMAIN calcset.items : item_type(calcset.items[i].cls) /= Str("variable") } }

\* the calculation set without the item at position i
Without(calcset, i) ==
    CalcSetObj(SubSeq(calcset.items, 1, i - 1) \o SubSeq(calcset.items, i + 1, Len(calcset.items)))

\* a calculation set whose expressions are lists of texts
OnlyTexts(calcset) ==
    \A i \in DOMAIN calcset.items :
       /\ calcset.items[i].children.t = "list"
       /\ \A k \in DOMAIN calcset.items[i].children.l :
             isinstance_str(calcset.items[i].children.l[k])

\* C25: error isolation: an item whose expression raises when it is
\* evaluated has the result None, run_calcset still returns, with a result
\* for every item that is no variable, and an item that does not refer to
\* the failing one has the value it has when the failing item is left out.
C25_ErrorsAreIsolated ==
    op = "run_calcset" =>
      /\ OnlyTexts(arg.calcset) => IsOk(res)
      /\ IsOk(res) =>
         \A i \in DOMAIN arg.calcset.items :
         ~IsOk(Evaluated(arg.calcset.items[i], FinalContext)) =>
            /\ DOMAIN res.val.d \cap Computed(arg.calcset) = Computed(arg.calcset)
            /\ res.val.d[str_chars(arg.calcset.items[i].name)] = NoneVal
            /\ \A j \in DOMAIN arg.calcset.items \ {i} :
                  /\ str_chars(arg.calcset.items[j].name) \in DOMAIN res.val.d
                  /\ str_chars(arg.calcset.items[i].name) \notin references(arg.calcset.items[j])
                  => \A sorted \in topological_sort(Without(arg.calcset, i)) :
                        LET without == run_calcset(sorted, arg.inputs, arg.output_variables)
                        IN  /\ IsOk(without)
                            /\ without.val.d[str_chars(arg.calcset.items[j].name)]
                                 = res.val.d[str_chars(arg.calcset.items[j].name)]

\* a division by zero next to an item that does not refer to it and has a
\* value
C25_Witness ==
    /\ op = "run_calcset" /\ IsOk(res)
    /\ \E i, j \in DOMAIN arg.calcset.items :
          /\ Evaluated(arg.calcset.items[i], FinalContext).err = "ZeroDivisionError"
          /\ res.val.d[str_chars(arg.calcset.items[i].name)] = NoneVal
          /\ str_chars(arg.calcset.items[i].name) \notin references(arg.calcset.items[j])
          /\ str_chars(arg.calcset.items[j].name) \in DOMAIN res.val.d
          /\ res.val.d[str_chars(arg.calcset.items[j].name)] \notin {NoneVal}

PayloadKept(f) ==
    /\ Len(f) = Len(file)
    /\ SubSeq(f, Len(HEADER) + 1, Len(f)) = SubSeq(file, Len(HEADER) + 1, Len(file))

\* the exceptions of zlib.decompress, bytes.decode, json.loads and from_dict
ReadingErrors ==
    {"zlib.error", "UnicodeDecodeError", "JSONDecodeError",
     "ValueError", "KeyError", "TypeError", "AttributeError", "IndexError"}

\* C28: read_lfcalc does not validate the header: whatever the 32 leading
\* bytes are, a valid payload behind them is read into the CalcSet that the
\* file with the right header holds, and a read fails only where the
\* payload fails, at decompression or at a later step.
C28_HeaderIsNotValidated ==
    op \in {"read_altered", "read_foreign"} =>
      /\ PayloadKept(arg.bytes) => IsOk(res) /\ res = CalcSet_read_from_file(file)
      /\ ~IsOk(res) => /\ ~PayloadKept(arg.bytes)
                       /\ res.err \in ReadingErrors
                       /\ res.err = "zlib.error"
                            <=> ~IsOk(zlib_decompress(SubSeq(arg.bytes, Len(HEADER) + 1,
                                                             Len(arg.bytes))))

\* a file with other bytes than the header in front of the payload has been
\* read into the items of cs
C28_Witness ==
    /\ op = "read_altered" /\ IsOk(res)
    /\ Len(arg.bytes) = Len(file)
    /\ SubSeq(arg.bytes, 1, 32) /= SubSeq(file, 1, 32)
    /\ Len(res.val.items) = Len(items) /\ items /= <<>>

(***************************************************************************)
(* The rows of a conditional.                                              *)
(***************************************************************************)
\* a row that is neither an IfRow, nor a dictionary of type "if_row", nor a
\* tuple or list of two elements
OtherShape(row) ==
    /\ row.t /= "IfRow"
    /\ ~(isinstance_dict(row) /\ "type" \in DOMAIN row.d /\ row.d["type"] = Str("if_row"))
    /\ ~(row.t = "tuple" /\ Len(row.tl) = 2)
    /\ ~(row.t = "list" /\ Len(row.l) = 2)

\* C29: If.to_dict takes a row as an IfRow, as its dictionary of type
\* "if_row" or as a (condition, value) tuple or list, and emits the same
\* entry of "rows" for every spelling of a row, in the declared order; a row
\* of another shape makes it raise ValueError.
C29_RowSpellingsEncodeAlike ==
    op = "If.to_dict" /\ arg.rows.t = "list" =>
      LET rows == arg.rows.l
          spelled(i) == { r \in BaseRows : rows[i] \in RowSpellings(r) }
      IN  /\ (\A i \in DOMAIN rows : spelled(i) /= {}) /\ arg.otherwise /= List(<<>>)
                => IsOk(res)
          /\ IsOk(res) =>
                /\ \A i \in DOMAIN rows : ~OtherShape(rows[i])
                /\ Len(res.val.d["rows"].l) = Len(rows)
                /\ \A i \in DOMAIN rows : \A r \in spelled(i) :
                      res.val.d["rows"].l[i] = IfRow_to_dict(r).val
          /\ \A i \in DOMAIN rows :
                OtherShape(rows[i]) /\ (\A j \in 1..(i - 1) : spelled(j) /= {})
                => res = Raise("ValueError")

\* two rows in two spellings other than IfRow objects have been encoded
C29_Witness ==
    /\ op = "If.to_dict" /\ IsOk(res) /\ arg.rows.t = "list" /\ Len(arg.rows.l) = 2
    /\ arg.rows.l[1].t = "tuple" /\ isinstance_dict(arg.rows.l[2])
    /\ arg.rows.l[1] \in RowSpellings(IfRowObj(List(<<Str("[x] > 0")>>), List(<<Str("'A'")>>)))
    /\ arg.rows.l[2] \in RowSpellings(IfRowObj(List(<<Str("[z] > 3")>>), List(<<GradeIf>>)))

(***************************************************************************)
(* Empty sequences.                                                        *)
(***************************************************************************)
\* the "children" of d[k] are an empty list
EmptyBody(d, k) ==
    /\ isinstance_dict(d) /\ k \in DOMAIN d.d
    /\ isinstance_dict(d.d[k]) /\ "children" \in DOMAIN d.d[k].d
    /\ d.d[k].d["children"] = List(<<>>)

\* somewhere in d, outside the dictionaries of P, a statement, result or
\* otherwise list is empty
RECURSIVE HasEmptyBody(_, _)
HasEmptyBody(d, P) ==
    CASE d \in P -> FALSE
      [] isinstance_dict(d) ->
             \/ \E k \in {"statement", "result", "otherwise"} : EmptyBody(d, k)
             \/ \E k \in DOMAIN d.d : HasEmptyBody(d.d[k], P)
      [] isinstance_list(d) -> \E i \in DOMAIN d.l : HasEmptyBody(d.l[i], P)
      [] OTHER -> FALSE

\* the dictionaries an object holds: rows and children that were handed to
\* it already serialized
RECURSIVE SerializedIn(_)
SerializedIn(x) ==
    CASE isinstance_dict(x) -> {x}
      [] x.t = "list" -> UNION { SerializedIn(x.l[i]) : i \in DOMAIN x.l }
      [] x.t = "tuple" -> UNION { SerializedIn(x.tl[i]) : i \in DOMAIN x.tl }
      [] x.t = "Item" -> SerializedIn(x.children)
      [] x.t = "If" -> SerializedIn(x.rows) \cup SerializedIn(x.otherwise)
      [] x.t = "IfRow" -> SerializedIn(x.condition) \cup SerializedIn(x.value)
      [] OTHER -> {}

\* the encoders and the decoders raise on an empty expression sequence
EmptySequencesRaise ==
    /\ (op = "Item.to_dict" /\ arg.children = List(<<>>)) => ~IsOk(res)
    /\ (op = "IfRow.to_dict" /\ arg.value = List(<<>>)) => ~IsOk(res)
    /\ (op = "If.to_dict" /\ arg.otherwise = List(<<>>)) => ~IsOk(res)
    /\ (op = "IfRow.from_dict" /\ dict_get(arg, "type", NoneVal) = Str("if_row")
          /\ EmptyBody(arg, "result")) => ~IsOk(res)
    /\ (op = "If.from_dict" /\ dict_get(arg, "type", NoneVal) = Str("if")
          /\ EmptyBody(arg, "otherwise")) => ~IsOk(res)

Encoded == op \in {"Item.to_dict", "IfRow.to_dict", "If.to_dict", "to_dict", "to_dict_again"}

\* C30 as stated: an empty expression sequence is neither encoded nor
\* decoded, the encoders and decoders raising on it, so that no dictionary
\* to_dict returns holds an empty statement, result or otherwise list.
C30_NoEmptyListIsEverEmitted ==
    /\ EmptySequencesRaise
    /\ Encoded /\ IsOk(res) => ~HasEmptyBody(res.val, {})

\* C30, amended: an empty expression sequence is neither encoded nor
\* decoded, the encoders and decoders raising on it, so that no dictionary
\* to_dict returns holds an empty statement, result or otherwise list apart
\* from the dictionaries handed to the objects already serialized, which
\* are emitted as given.
C30_NoEmptyListIsEncoded ==
    /\ EmptySequencesRaise
    /\ Encoded /\ IsOk(res) =>
          ~HasEmptyBody(res.val, SerializedIn(IF op \in {"to_dict", "to_dict_again"}
                                              THEN List(items) ELSE arg))

\* a conditional with an empty otherwise has made to_dict raise
C30_Witness ==
    /\ op = "If.to_dict" /\ arg.otherwise = List(<<>>)
    /\ arg.rows.t = "list" /\ arg.rows.l /= <<>>
    /\ res = Raise("IndexError")
====
